---- MODULE Spec2Model ----
(***************************************************************************)
(* Step-lower-bound solver of raphael-solver                               *)
(* (src/raphael-solver/src/step_lower_bound_solver/solver.rs).             *)
(*                                                                         *)
(* The solver (StepLbSolver) is modelled from solver.rs.  The crates it    *)
(* calls into (the simulator, the action catalog, ReducedState, the        *)
(* ParetoFrontBuilder and the two helper tables) are modelled from the     *)
(* written specification, on an abstract catalog whose entries are         *)
(* (progress, quality, steps, cp, durability) tuples.                      *)
(***************************************************************************)
EXTENDS Integers, Sequences, FiniteSets, TLC

VARIABLES
    settings,                     \* StepLbSolver.settings (after new())
    interrupt_signal,             \* StepLbSolver.interrupt_signal
    solved_states,                \* StepLbSolver.solved_states
    precompute_templates,         \* StepLbSolver.precompute_templates
    pc,                           \* lifecycle / position inside precompute()
    next_precompute_step_budget,  \* local of precompute()
    pending,                      \* instantiated states not yet solved in this layer
    solved_templates,             \* results collected in this layer
    iq_quality_lut,               \* StepLbSolver.iq_quality_lut
    largest_progress_increase,    \* StepLbSolver.largest_progress_increase
    calls,                        \* number of precompute() calls so far
    last_query,                   \* the last bound query and what it returned
    app,                          \* MacroSolverApp and the solver thread it spawns
    crafter_config                \* CrafterConfig

vars == <<settings, interrupt_signal, solved_states, precompute_templates, pc,
          next_precompute_step_budget, pending, solved_templates,
          iq_quality_lut, largest_progress_increase, calls, last_query,
          app, crafter_config>>

-----------------------------------------------------------------------------
(* Bounds of the model *)

MaxCalls == 2          \* precompute() is called at most this often
MaxCancelBudget == 3   \* the cancel flag is raised while next budget <= this, or once it is 255
QueryDepth == 2        \* queried states are at most this many actions from the initial state
MaxSearchSteps == 6    \* horizon of the exhaustive search the bounds are compared with
MaxQueryBudget == 5    \* budgets / hints of the queries range over 0..this
MaxSolves == 2         \* the Solve button is clicked at most this often
MaxCallbacks == 2      \* callbacks a solver thread makes before it returns

(* Program constants *)

U8_MAX == 255          \* NonZeroU8::MAX / u8::MAX
IQ_MAX == 10           \* iq_quality_lut: [u32; 11]
OPTIMISTIC_CP == 65535 \* ReducedState::to_state: CP is erased (optimistic)

-----------------------------------------------------------------------------
(* Arithmetic helpers *)

Min(a, b) == IF a < b THEN a ELSE b
Max(a, b) == IF a > b THEN a ELSE b
saturating_sub(a, b) == IF a > b THEN a - b ELSE 0
saturating_add_u8(a, b) == Min(a + b, U8_MAX)
Range(f) == {f[i] : i \in DOMAIN f}

-----------------------------------------------------------------------------
(* Action catalog.  FULL_SEARCH_ACTIONS is the fixed list the solver       *)
(* iterates over; the parameters of each entry come with the settings      *)
(* (only the allowed actions have parameters).                             *)

FULL_SEARCH_ACTIONS ==
    <<"MuscleMemory", "BasicSynthesis", "CarefulSynthesis", "BasicTouch",
      "ComboAction", "PrudentSynthesis", "PrudentTouch", "StandardTouchCombo">>

\* A catalog in which the two-step combo is charged no step.
ActionSteps_free_combo(action) == IF action = "StandardTouchCombo" THEN 0 ELSE 1

ActionSteps(action) == IF action = "StandardTouchCombo" THEN 2 ELSE 1

\* One catalog entry: costs (cp, dur), deltas (dp, dq) and effect transforms
\* (iq: inner-quiet stacks gained; mm: MuscleMemory turns granted; combo:
\* the combo tag left behind).
Act(dp, dq, cp, dur, iq, mm, combo) ==
    [dp |-> dp, dq |-> dq, cp |-> cp, dur |-> dur, iq |-> iq, mm |-> mm,
     combo |-> combo]

\* S1 of the specification: progress only.
SettingsS1 ==
    [max_progress |-> 100, max_quality |-> 0, max_durability |-> 30, max_cp |-> 200,
     adversarial |-> FALSE, backload_progress |-> FALSE,
     actions |-> [a \in {"BasicSynthesis", "CarefulSynthesis"} |->
                    IF a = "BasicSynthesis"
                    THEN Act(30, 0, 0, 10, 0, 0, "None")
                    ELSE Act(45, 0, 7, 10, 0, 0, "None")]]

\* A small recipe with quality, MuscleMemory, a two-step combo and
\* backloaded progress, in which every template saturates both targets.
SettingsR ==
    [max_progress |-> 4, max_quality |-> 3, max_durability |-> 20, max_cp |-> 60,
     adversarial |-> TRUE, backload_progress |-> TRUE,
     actions |-> [a \in {"MuscleMemory", "BasicSynthesis", "BasicTouch",
                         "PrudentSynthesis", "PrudentTouch", "StandardTouchCombo"} |->
                    CASE a = "MuscleMemory" -> Act(1, 0, 6, 10, 0, 2, "None")
                      [] a = "BasicSynthesis" -> Act(1, 0, 0, 10, 0, 0, "None")
                      [] a = "BasicTouch" -> Act(0, 2, 18, 10, 1, 0, "BasicTouch")
                      [] a = "PrudentSynthesis" -> Act(1, 0, 10, 0, 0, 0, "None")
                      [] a = "PrudentTouch" -> Act(0, 2, 10, 0, 0, 0, "None")
                      [] OTHER -> Act(0, 3, 20, 10, 1, 0, "None")]]

\* S2 of the specification: S1 with a quality target and one touch action.
SettingsS2 ==
    [max_progress |-> 100, max_quality |-> 100, max_durability |-> 30, max_cp |-> 200,
     adversarial |-> FALSE, backload_progress |-> FALSE,
     actions |-> [a \in {"BasicSynthesis", "CarefulSynthesis", "BasicTouch"} |->
                    CASE a = "BasicSynthesis" -> Act(30, 0, 0, 10, 0, 0, "None")
                      [] a = "CarefulSynthesis" -> Act(45, 0, 7, 10, 0, 0, "None")
                      [] OTHER -> Act(0, 30, 18, 10, 0, 0, "None")]]

\* S4 of the specification: one action that gives progress and quality.
SettingsS4 ==
    [max_progress |-> 100, max_quality |-> 100, max_durability |-> 30, max_cp |-> 200,
     adversarial |-> FALSE, backload_progress |-> FALSE,
     actions |-> [a \in {"ComboAction"} |-> Act(50, 50, 10, 10, 0, 0, "None")]]

UserSettings == {SettingsS1, SettingsR, SettingsS2, SettingsS4}

-----------------------------------------------------------------------------
(* raphael-sim: Effects, SimulationState and the simulator step *)

Effects_initial(st) ==
    [inner_quiet |-> 0, muscle_memory |-> 0, allow_quality_actions |-> TRUE,
     combo |-> "SynthesisBegin", adversarial_guard |-> st.adversarial]

SimulationState_new(st) ==
    [durability |-> st.max_durability, cp |-> st.max_cp, progress |-> 0,
     quality |-> 0, unreliable_quality |-> 0, effects |-> Effects_initial(st)]

is_final(st, state) ==
    state.progress >= st.max_progress \/ state.durability = 0

\* use_action_combo(settings, state, action): [ok, state].  A combo is
\* applied atomically and charged its combined cost.
use_action_combo(st, state, action) ==
    IF action \notin DOMAIN st.actions THEN [ok |-> FALSE, state |-> state]
    ELSE
    LET a == st.actions[action]
        e == state.effects
        dp == IF e.muscle_memory > 0 /\ a.dp > 0 THEN 2 * a.dp ELSE a.dp
    IN  IF \/ is_final(st, state)
           \/ state.cp < a.cp
           \/ (a.dq > 0 /\ ~e.allow_quality_actions)
        THEN [ok |-> FALSE, state |-> state]
        ELSE [ok |-> TRUE,
              state |->
                [durability |-> saturating_sub(state.durability, a.dur),
                 cp |-> state.cp - a.cp,
                 progress |-> state.progress + dp,
                 quality |-> state.quality + a.dq,
                 unreliable_quality |-> 0,
                 effects |->
                   [inner_quiet |-> Min(IQ_MAX, e.inner_quiet + a.iq),
                    muscle_memory |->
                        IF a.mm > 0 THEN a.mm
                        ELSE IF a.dp > 0 THEN 0
                        ELSE saturating_sub(e.muscle_memory, ActionSteps(action)),
                    allow_quality_actions |->
                        e.allow_quality_actions
                        /\ ~(st.backload_progress /\ a.dp > 0 /\ a.mm = 0),
                    combo |-> a.combo,
                    adversarial_guard |-> st.adversarial /\ a.dq > 0]]]

-----------------------------------------------------------------------------
(* ReducedState (step_lower_bound_solver/state.rs) *)

ReducedState_from_state(state, step_budget) ==
    [durability |-> state.durability,
     effects |-> [state.effects EXCEPT !.adversarial_guard = FALSE, !.combo = "None"],
     steps_budget |-> step_budget]

\* to_state that rebuilds the full state with the effects of a fresh craft.
ReducedState_to_state_fresh_effects(rs) ==
    [durability |-> rs.durability, cp |-> OPTIMISTIC_CP, progress |-> 0,
     quality |-> 0, unreliable_quality |-> 0,
     effects |-> [rs.effects EXCEPT !.inner_quiet = 0, !.muscle_memory = 0]]

ReducedState_to_state(rs) ==
    [durability |-> rs.durability, cp |-> OPTIMISTIC_CP, progress |-> 0,
     quality |-> 0, unreliable_quality |-> 0, effects |-> rs.effects]

-----------------------------------------------------------------------------
(* utils::ParetoValue and utils::ParetoFrontBuilder: a stack of fronts, each *)
(* a sequence of (first, second) = (progress, quality) values.              *)

ParetoValue_new(first, second) == [first |-> first, second |-> second]

ParetoFrontBuilder_new(max_first, max_second) ==
    [max_first |-> max_first, max_second |-> max_second, fronts |-> <<>>]

clear(builder) == [builder EXCEPT !.fronts = <<>>]
push_empty(builder) ==
    [builder EXCEPT !.fronts = Append(@, <<ParetoValue_new(0, 0)>>)]
push_slice(builder, slice) == [builder EXCEPT !.fronts = Append(@, slice)]
peek(builder) == builder.fronts[Len(builder.fronts)]

RECURSIVE ShiftFront(_, _, _)
ShiftFront(front, dp, dq) ==
    IF front = <<>> THEN <<>>
    ELSE <<ParetoValue_new(Head(front).first + dp, Head(front).second + dq)>>
            \o ShiftFront(Tail(front), dp, dq)

\* peek_mut().iter_mut().for_each(|v| { v.first += dp; v.second += dq })
shift_top(builder, dp, dq) ==
    LET n == Len(builder.fronts)
    IN  [builder EXCEPT !.fronts[n] = ShiftFront(@, dp, dq)]

\* The points of a set with pairwise distinct firsts, by increasing first.
RECURSIVE SortByFirst(_)
SortByFirst(S) ==
    IF S = {} THEN <<>>
    ELSE LET m == CHOOSE v \in S : \A w \in S : v.first <= w.first
         IN  <<m>> \o SortByFirst(S \ {m})

\* Saturate, then prune the dominated points of the union.
MergeFronts(a, b, max_first, max_second) ==
    LET pts == {ParetoValue_new(Min(v.first, max_first), Min(v.second, max_second)) :
                    v \in Range(a) \cup Range(b)}
        nd == {v \in pts : ~\E w \in pts :
                    w # v /\ w.first >= v.first /\ w.second >= v.second}
    IN  SortByFirst(nd)

merge(builder) ==
    LET n == Len(builder.fronts)
    IN  [builder EXCEPT !.fronts =
            Append(SubSeq(@, 1, n - 2),
                   MergeFronts(builder.fronts[n - 1], builder.fronts[n],
                               builder.max_first, builder.max_second))]

-----------------------------------------------------------------------------
(* utils: the two tables StepLbSolver::new derives from the settings *)

\* iq_quality_lut[k]: an under-estimate of the quality a state holding k
\* inner-quiet stacks has already gained (index k + 1 of the sequence).
compute_iq_quality_lut(st) ==
    LET per_stack == {st.actions[a].dq \div st.actions[a].iq :
                        a \in {x \in DOMAIN st.actions : st.actions[x].iq > 0}}
        least == IF per_stack = {} THEN 0
                 ELSE CHOOSE m \in per_stack : \A x \in per_stack : m <= x
    IN  [k \in 1..(IQ_MAX + 1) |-> (k - 1) * least]

\* The largest progress a single action can add with MuscleMemory active.
largest_single_action_progress_increase(st) ==
    LET incs == {2 * st.actions[a].dp : a \in DOMAIN st.actions} \cup {0}
    IN  CHOOSE m \in incs : \A x \in incs : x <= m

\* ReducedState::optimize_action_mask: drop every allowed action that
\* another allowed action dominates once CP is erased.
Dominates(st, a, b) ==
    LET x == st.actions[a]
        y == st.actions[b]
    IN  /\ ActionSteps(a) = ActionSteps(b)
        /\ x.iq = y.iq /\ x.mm = y.mm
        /\ (x.dp > 0) = (y.dp > 0) /\ (x.dq > 0) = (y.dq > 0)
        /\ x.dur <= y.dur /\ x.dp >= y.dp /\ x.dq >= y.dq
        /\ (x.dur < y.dur \/ x.dp > y.dp \/ x.dq > y.dq)

optimize_action_mask(st) ==
    LET keep == {b \in DOMAIN st.actions :
                    ~\E a \in DOMAIN st.actions : a # b /\ Dominates(st, a, b)}
    IN  [st EXCEPT !.actions = [a \in keep |-> st.actions[a]]]

-----------------------------------------------------------------------------
(* Template and template enumeration *)

Template_instantiate(template, step_budget) ==
    ReducedState_from_state(
        [durability |-> template.durability, effects |-> template.effects,
         cp |-> 0, progress |-> 0, quality |-> 0, unreliable_quality |-> 0],
        step_budget)

\* The for loop that inserts a new template without queue.push_back: the
\* enumeration stops at the children of the seed.
RECURSIVE ExpandTemplate_no_push_back(_, _, _, _)
ExpandTemplate_no_push_back(st, state, acc, i) ==
    IF i > Len(FULL_SEARCH_ACTIONS) THEN acc
    ELSE
    LET r == use_action_combo(st, ReducedState_to_state(state), FULL_SEARCH_ACTIONS[i])
        new_state == ReducedState_from_state(r.state, U8_MAX)
        new_template == [durability |-> new_state.durability,
                         effects |-> new_state.effects]
    IN  ExpandTemplate_no_push_back(st, state,
            IF r.ok /\ new_state.durability > 0 /\ new_template \notin acc.templates
            THEN [templates |-> acc.templates \cup {new_template},
                  queue |-> acc.queue]
            ELSE acc,
            i + 1)

\* The for loop that pushes each new template on the queue twice.
RECURSIVE ExpandTemplate_pushes_twice(_, _, _, _)
ExpandTemplate_pushes_twice(st, state, acc, i) ==
    IF i > Len(FULL_SEARCH_ACTIONS) THEN acc
    ELSE
    LET r == use_action_combo(st, ReducedState_to_state(state), FULL_SEARCH_ACTIONS[i])
        new_state == ReducedState_from_state(r.state, U8_MAX)
        new_template == [durability |-> new_state.durability,
                         effects |-> new_state.effects]
    IN  ExpandTemplate_pushes_twice(st, state,
            IF r.ok /\ new_state.durability > 0 /\ new_template \notin acc.templates
            THEN [templates |-> acc.templates \cup {new_template},
                  queue |-> acc.queue \o <<new_template, new_template>>]
            ELSE acc,
            i + 1)

\* The for loop without the new_state.durability > 0 test.
RECURSIVE ExpandTemplate_keeps_broken(_, _, _, _)
ExpandTemplate_keeps_broken(st, state, acc, i) ==
    IF i > Len(FULL_SEARCH_ACTIONS) THEN acc
    ELSE
    LET r == use_action_combo(st, ReducedState_to_state(state), FULL_SEARCH_ACTIONS[i])
        new_state == ReducedState_from_state(r.state, U8_MAX)
        new_template == [durability |-> new_state.durability,
                         effects |-> new_state.effects]
    IN  ExpandTemplate_keeps_broken(st, state,
            IF r.ok /\ new_template \notin acc.templates
            THEN [templates |-> acc.templates \cup {new_template},
                  queue |-> Append(acc.queue, new_template)]
            ELSE acc,
            i + 1)

\* The for loop over FULL_SEARCH_ACTIONS for one dequeued template, from
\* action index i on; acc = [templates, queue].
RECURSIVE ExpandTemplate(_, _, _, _)
ExpandTemplate(st, state, acc, i) ==
    IF i > Len(FULL_SEARCH_ACTIONS) THEN acc
    ELSE
    LET r == use_action_combo(st, ReducedState_to_state(state), FULL_SEARCH_ACTIONS[i])
        new_state == ReducedState_from_state(r.state, U8_MAX)
        new_template == [durability |-> new_state.durability,
                         effects |-> new_state.effects]
    IN  ExpandTemplate(st, state,
            IF r.ok /\ new_state.durability > 0 /\ new_template \notin acc.templates
            THEN [templates |-> acc.templates \cup {new_template},
                  queue |-> Append(acc.queue, new_template)]
            ELSE acc,
            i + 1)

RECURSIVE TemplateBFS(_, _)
TemplateBFS(st, acc) ==
    IF acc.queue = <<>> THEN acc.templates
    ELSE TemplateBFS(st,
            ExpandTemplate(st, Template_instantiate(Head(acc.queue), U8_MAX),
                           [acc EXCEPT !.queue = Tail(@)], 1))

generate_precompute_templates(st) ==
    LET seed_template ==
            [durability |-> st.max_durability,
             effects |-> [Effects_initial(st) EXCEPT !.adversarial_guard = FALSE,
                                                     !.combo = "None"]]
    IN  TemplateBFS(st, [templates |-> {seed_template}, queue |-> <<seed_template>>])

EmptyMap == [k \in {} |-> <<>>]

\* The settings each field of the new solver is derived from: the table of
\* line 37 is computed from the settings as passed, before lines 38-39
\* normalise them; the fields of lines 41-46 from the normalised settings.
SettingsUsed(user) ==
    LET st == optimize_action_mask([user EXCEPT !.adversarial = FALSE])
    IN  [settings |-> st,
         precompute_templates |-> st,
         iq_quality_lut |-> user,
         largest_progress_increase |-> st]

\* new() without line 38: the adversarial flag stays as passed.
StepLbSolver_new_keeps_adversarial(user) ==
    LET st == optimize_action_mask(user)
    IN  [settings |-> st,
         solved_states |-> EmptyMap,
         precompute_templates |-> generate_precompute_templates(st),
         iq_quality_lut |-> compute_iq_quality_lut(user),
         largest_progress_increase |-> largest_single_action_progress_increase(st)]

StepLbSolver_new(user) ==
    LET used == SettingsUsed(user)
    IN  [settings |-> used.settings,
         solved_states |-> EmptyMap,
         precompute_templates |-> generate_precompute_templates(used.precompute_templates),
         iq_quality_lut |-> compute_iq_quality_lut(used.iq_quality_lut),
         largest_progress_increase |->
            largest_single_action_progress_increase(used.largest_progress_increase)]

-----------------------------------------------------------------------------
(* solve_precompute_state *)

\* SolveAction with the child front shifted only after it was merged: the
\* saturation of merge() is applied before the action's deltas are added.
SolveAction_shift_after_merge(self, acc, state, action) ==
    IF acc.unreachable \/ state.steps_budget < ActionSteps(action) THEN acc
    ELSE
    LET new_step_budget == state.steps_budget - ActionSteps(action)
        r == use_action_combo(self.settings, ReducedState_to_state(state), action)
        progress == r.state.progress
        quality == r.state.quality
        new_state == ReducedState_from_state(r.state, new_step_budget)
        b == acc.builder
    IN  IF ~r.ok THEN acc
        ELSE IF new_step_budget >= 1 /\ r.state.durability > 0 THEN
            IF new_state \in DOMAIN self.solved_states THEN
                [acc EXCEPT !.builder =
                    shift_top(merge(push_slice(b, self.solved_states[new_state])),
                              progress, quality)]
            ELSE IF ~new_state.effects.allow_quality_actions THEN
                [acc EXCEPT !.builder =
                    shift_top(merge(
                        push_slice(b, <<ParetoValue_new(self.settings.max_progress, 0)>>)),
                        progress, quality)]
            ELSE [acc EXCEPT !.unreachable = TRUE]
        ELSE IF progress # 0 THEN
            [acc EXCEPT !.builder =
                merge(push_slice(b, <<ParetoValue_new(progress, quality)>>))]
        ELSE acc

\* SolveAction that drops the outcome of every terminal action.
SolveAction_terminal_never(self, acc, state, action) ==
    IF acc.unreachable \/ state.steps_budget < ActionSteps(action) THEN acc
    ELSE
    LET new_step_budget == state.steps_budget - ActionSteps(action)
        r == use_action_combo(self.settings, ReducedState_to_state(state), action)
        progress == r.state.progress
        quality == r.state.quality
        new_state == ReducedState_from_state(r.state, new_step_budget)
        b == acc.builder
    IN  IF ~r.ok THEN acc
        ELSE IF new_step_budget >= 1 /\ r.state.durability > 0 THEN
            IF new_state \in DOMAIN self.solved_states THEN
                [acc EXCEPT !.builder =
                    merge(shift_top(push_slice(b, self.solved_states[new_state]),
                                    progress, quality))]
            ELSE IF ~new_state.effects.allow_quality_actions THEN
                [acc EXCEPT !.builder =
                    merge(shift_top(
                        push_slice(b, <<ParetoValue_new(self.settings.max_progress, 0)>>),
                        progress, quality))]
            ELSE [acc EXCEPT !.unreachable = TRUE]
        ELSE acc

\* SolveAction that merges the outcome of every terminal action, also one
\* without progress.
SolveAction_terminal_always(self, acc, state, action) ==
    IF acc.unreachable \/ state.steps_budget < ActionSteps(action) THEN acc
    ELSE
    LET new_step_budget == state.steps_budget - ActionSteps(action)
        r == use_action_combo(self.settings, ReducedState_to_state(state), action)
        progress == r.state.progress
        quality == r.state.quality
        new_state == ReducedState_from_state(r.state, new_step_budget)
        b == acc.builder
    IN  IF ~r.ok THEN acc
        ELSE IF new_step_budget >= 1 /\ r.state.durability > 0 THEN
            IF new_state \in DOMAIN self.solved_states THEN
                [acc EXCEPT !.builder =
                    merge(shift_top(push_slice(b, self.solved_states[new_state]),
                                    progress, quality))]
            ELSE IF ~new_state.effects.allow_quality_actions THEN
                [acc EXCEPT !.builder =
                    merge(shift_top(
                        push_slice(b, <<ParetoValue_new(self.settings.max_progress, 0)>>),
                        progress, quality))]
            ELSE [acc EXCEPT !.unreachable = TRUE]
        ELSE [acc EXCEPT !.builder =
                merge(push_slice(b, <<ParetoValue_new(progress, quality)>>))]

\* One iteration of the loop over FULL_SEARCH_ACTIONS.  acc = [builder,
\* unreachable]; unreachable records that unreachable!() was hit.
SolveAction(self, acc, state, action) ==
    IF acc.unreachable \/ state.steps_budget < ActionSteps(action) THEN acc
    ELSE
    LET new_step_budget == state.steps_budget - ActionSteps(action)
        r == use_action_combo(self.settings, ReducedState_to_state(state), action)
        progress == r.state.progress
        quality == r.state.quality
        new_state == ReducedState_from_state(r.state, new_step_budget)
        b == acc.builder
    IN  IF ~r.ok THEN acc
        ELSE IF new_step_budget >= 1 /\ r.state.durability > 0 THEN
            IF new_state \in DOMAIN self.solved_states THEN
                [acc EXCEPT !.builder =
                    merge(shift_top(push_slice(b, self.solved_states[new_state]),
                                    progress, quality))]
            ELSE IF ~new_state.effects.allow_quality_actions THEN
                [acc EXCEPT !.builder =
                    merge(shift_top(
                        push_slice(b, <<ParetoValue_new(self.settings.max_progress, 0)>>),
                        progress, quality))]
            ELSE [acc EXCEPT !.unreachable = TRUE]
        ELSE IF progress # 0 THEN
            [acc EXCEPT !.builder =
                merge(push_slice(b, <<ParetoValue_new(progress, quality)>>))]
        ELSE acc

RECURSIVE SolveLoop(_, _, _, _)
SolveLoop(self, acc, state, i) ==
    IF i > Len(FULL_SEARCH_ACTIONS) THEN acc
    ELSE SolveLoop(self, SolveAction(self, acc, state, FULL_SEARCH_ACTIONS[i]),
                   state, i + 1)

\* [front, unreachable]: the boxed copy of the top front, or the panic.
solve_precompute_state(self, pareto_front_builder, state) ==
    LET acc == SolveLoop(self,
                    [builder |-> push_empty(clear(pareto_front_builder)),
                     unreachable |-> FALSE],
                    state, 1)
    IN  [front |-> peek(acc.builder), unreachable |-> acc.unreachable]

-----------------------------------------------------------------------------
(* Bound queries *)

Ok(some, value) == [kind |-> "Ok", some |-> some, value |-> value]
Err == [kind |-> "Err", some |-> FALSE, value |-> 0]

\* partition_point with the predicate "first <= required": a point that
\* meets the requirement exactly is skipped.
RECURSIVE partition_point_le(_, _, _, _)
partition_point_le(front, required, lo, hi) ==
    IF lo >= hi THEN lo
    ELSE LET mid == lo + (hi - lo) \div 2
         IN  IF front[mid + 1].first <= required
             THEN partition_point_le(front, required, mid + 1, hi)
             ELSE partition_point_le(front, required, lo, mid)

\* slice::partition_point: binary search for the first index (0-based) at
\* which the predicate "first < required" fails.
RECURSIVE partition_point(_, _, _, _)
partition_point(front, required, lo, hi) ==
    IF lo >= hi THEN lo
    ELSE LET mid == lo + (hi - lo) \div 2
         IN  IF front[mid + 1].first < required
             THEN partition_point(front, required, mid + 1, hi)
             ELSE partition_point(front, required, lo, mid)

\* quality_upper_bound that reads the frontier point of largest progress
\* whenever some point meets the required progress.
quality_upper_bound_largest_progress(self, state, step_budget) ==
    LET mm == state.effects.muscle_memory # 0
        base == self.settings.max_progress - state.progress
        required_progress ==
            IF mm THEN saturating_sub(base, self.largest_progress_increase) ELSE base
        state2 == IF mm THEN [state EXCEPT !.effects.muscle_memory = 0] ELSE state
        reduced_state == ReducedState_from_state(state2, step_budget)
    IN  IF reduced_state \in DOMAIN self.solved_states THEN
            LET pareto_front == self.solved_states[reduced_state]
                index == partition_point(pareto_front, required_progress,
                                         0, Len(pareto_front))
            IN  IF index < Len(pareto_front)
                THEN Ok(TRUE, state.quality + pareto_front[Len(pareto_front)].second)
                ELSE Ok(FALSE, 0)
        ELSE Err

\* quality_upper_bound that answers None for a reduced state it does not
\* know.
quality_upper_bound_unknown_is_none(self, state, step_budget) ==
    LET mm == state.effects.muscle_memory # 0
        base == self.settings.max_progress - state.progress
        required_progress ==
            IF mm THEN saturating_sub(base, self.largest_progress_increase) ELSE base
        state2 == IF mm THEN [state EXCEPT !.effects.muscle_memory = 0] ELSE state
        reduced_state == ReducedState_from_state(state2, step_budget)
    IN  IF reduced_state \in DOMAIN self.solved_states THEN
            LET pareto_front == self.solved_states[reduced_state]
                index == partition_point(pareto_front, required_progress,
                                         0, Len(pareto_front))
            IN  IF index < Len(pareto_front)
                THEN Ok(TRUE, state.quality + pareto_front[index + 1].second)
                ELSE Ok(FALSE, 0)
        ELSE Ok(FALSE, 0)

\* quality_upper_bound without the MuscleMemory branch of lines 212-216.
quality_upper_bound_keeps_muscle_memory(self, state, step_budget) ==
    LET required_progress == self.settings.max_progress - state.progress
        reduced_state == ReducedState_from_state(state, step_budget)
    IN  IF reduced_state \in DOMAIN self.solved_states THEN
            LET pareto_front == self.solved_states[reduced_state]
                index == partition_point(pareto_front, required_progress,
                                         0, Len(pareto_front))
            IN  IF index < Len(pareto_front)
                THEN Ok(TRUE, state.quality + pareto_front[index + 1].second)
                ELSE Ok(FALSE, 0)
        ELSE Err

quality_upper_bound(self, state, step_budget) ==
    LET mm == state.effects.muscle_memory # 0
        base == self.settings.max_progress - state.progress
        required_progress ==
            IF mm THEN saturating_sub(base, self.largest_progress_increase) ELSE base
        state2 == IF mm THEN [state EXCEPT !.effects.muscle_memory = 0] ELSE state
        reduced_state == ReducedState_from_state(state2, step_budget)
    IN  IF reduced_state \in DOMAIN self.solved_states THEN
            LET pareto_front == self.solved_states[reduced_state]
                index == partition_point(pareto_front, required_progress,
                                         0, Len(pareto_front))
            IN  IF index < Len(pareto_front)
                THEN Ok(TRUE, state.quality + pareto_front[index + 1].second)
                ELSE Ok(FALSE, 0)
        ELSE Err

\* One pass of the loop that stops at the first budget with Some bound,
\* whatever the quality.
StepIteration_ignores_quality(self, state, hint, probes) ==
    LET r == quality_upper_bound(self, state, hint)
    IN  IF r.kind = "Err" THEN [kind |-> "Err", value |-> 0, probes |-> probes + 1]
        ELSE IF ~r.some THEN
            IF hint = U8_MAX
            THEN [kind |-> "Panic", value |-> 0, probes |-> probes + 1]
            ELSE [kind |-> "Continue", value |-> hint + 1, probes |-> probes + 1]
        ELSE [kind |-> "Ok", value |-> hint, probes |-> probes + 1]

\* One pass of the loop that takes the error of an unknown state for "this
\* budget is enough" and returns the budget.
StepIteration_error_is_bound(self, state, hint, probes) ==
    LET r == quality_upper_bound(self, state, hint)
    IN  IF r.kind = "Err" THEN [kind |-> "Ok", value |-> hint, probes |-> probes + 1]
        ELSE IF ~r.some \/ r.value < self.settings.max_quality THEN
            IF hint = U8_MAX
            THEN [kind |-> "Panic", value |-> 0, probes |-> probes + 1]
            ELSE [kind |-> "Continue", value |-> hint + 1, probes |-> probes + 1]
        ELSE [kind |-> "Ok", value |-> hint, probes |-> probes + 1]

\* One pass of the loop that keeps incrementing while quality_ub <= max_quality.
StepIteration_le(self, state, hint, probes) ==
    LET r == quality_upper_bound(self, state, hint)
    IN  IF r.kind = "Err" THEN [kind |-> "Err", value |-> 0, probes |-> probes + 1]
        ELSE IF ~r.some \/ r.value <= self.settings.max_quality THEN
            IF hint = U8_MAX
            THEN [kind |-> "Panic", value |-> 0, probes |-> probes + 1]
            ELSE [kind |-> "Continue", value |-> hint + 1, probes |-> probes + 1]
        ELSE [kind |-> "Ok", value |-> hint, probes |-> probes + 1]

\* One pass of the while loop of step_lower_bound at budget hint: the `?` on
\* quality_upper_bound ("Err"), the loop test, and hint.checked_add(1).unwrap()
\* ("Panic" at 255, else "Continue" with the next budget).  probes counts the
\* calls of quality_upper_bound made so far.
StepIteration(self, state, hint, probes) ==
    LET r == quality_upper_bound(self, state, hint)
    IN  IF r.kind = "Err" THEN [kind |-> "Err", value |-> 0, probes |-> probes + 1]
        ELSE IF ~r.some \/ r.value < self.settings.max_quality THEN
            IF hint = U8_MAX
            THEN [kind |-> "Panic", value |-> 0, probes |-> probes + 1]
            ELSE [kind |-> "Continue", value |-> hint + 1, probes |-> probes + 1]
        ELSE [kind |-> "Ok", value |-> hint, probes |-> probes + 1]

\* Up to n passes of the loop, run as two halves so that a loop of 255
\* passes is evaluated at depth 8.
RECURSIVE StepLoopN(_, _, _, _, _)
StepLoopN(self, state, hint, probes, n) ==
    IF n = 1 THEN StepIteration(self, state, hint, probes)
    ELSE LET half == n \div 2
             first == StepLoopN(self, state, hint, probes, half)
         IN  IF first.kind # "Continue" THEN first
             ELSE StepLoopN(self, state, first.value, first.probes, n - half)

\* The while loop of step_lower_bound: from a budget >= 1 it ends within 255
\* passes, with Ok, Err or the panic of the increment.
StepLoop(self, state, hint, probes) == StepLoopN(self, state, hint, probes, U8_MAX)

\* step_lower_bound that starts its loop one budget above max(hint, 1).
step_lower_bound_skips_first_budget(self, state, hint) ==
    IF ~state.effects.allow_quality_actions /\ state.quality < self.settings.max_quality
    THEN [kind |-> "Ok", value |-> U8_MAX, probes |-> 0]
    ELSE StepLoop(self, state, Min(Max(hint, 1) + 1, U8_MAX), 0)

\* step_lower_bound whose shortcut does not look at the quality reached.
step_lower_bound_no_quality_test(self, state, hint) ==
    IF ~state.effects.allow_quality_actions
    THEN [kind |-> "Ok", value |-> U8_MAX, probes |-> 0]
    ELSE StepLoop(self, state, Max(hint, 1), 0)

step_lower_bound(self, state, hint) ==
    IF ~state.effects.allow_quality_actions /\ state.quality < self.settings.max_quality
    THEN [kind |-> "Ok", value |-> U8_MAX, probes |-> 0]
    ELSE StepLoop(self, state, Max(hint, 1), 0)

-----------------------------------------------------------------------------
(* The callers of the solver: the settings it may be constructed with and  *)
(* the states the outer search may query it on.                            *)

Solvers == [u \in UserSettings |-> StepLbSolver_new(u)]

UserOf(st) == CHOOSE u \in UserSettings : Solvers[u].settings = st

Successors(u, S) ==
    {r.state : r \in {x \in {use_action_combo(u, s, a) :
                                s \in S, a \in Range(FULL_SEARCH_ACTIONS)} : x.ok}}

RECURSIVE ReachWithin(_, _, _)
ReachWithin(u, S, d) ==
    IF d = 0 THEN S ELSE ReachWithin(u, S \cup Successors(u, S), d - 1)

\* The non-final states at most QueryDepth actions from the initial state.
QueryStates ==
    [u \in UserSettings |->
        {s \in ReachWithin(u, {SimulationState_new(u)}, QueryDepth) : ~is_final(u, s)}]

QueryBudgets == 1..MaxQueryBudget
QueryHints == (0..MaxQueryBudget) \cup {U8_MAX}

-----------------------------------------------------------------------------
(* State machine *)

Self ==
    [settings |-> settings, solved_states |-> solved_states,
     iq_quality_lut |-> iq_quality_lut,
     largest_progress_increase |-> largest_progress_increase]

NoQuery == [op |-> "none"]

-----------------------------------------------------------------------------
(* The app (src/app.rs) and the crafter configuration (src/config.rs) as   *)
(* they are constructed.                                                   *)

\* Option::None of solver_error / of a Finished event.
None == "None"

\* MacroSolverApp::new: the fields the solver life cycle touches.  thread,
\* returned and the fields below them record the solver thread and what the
\* last update() did.
AppInitial ==
    [solver_pending |-> FALSE,
     solver_error |-> None,
     solver_events |-> <<>>,
     solver_interrupt |-> FALSE,
     late_cancel |-> FALSE,
     actions |-> "Empty",
     solver_progress |-> 0,
     saved_rotations_sync_requests |-> <<>>,
     solve_initiated |-> FALSE,
     pool_initialized |-> FALSE,
     thread |-> "NotSpawned",
     callbacks |-> 0,
     returned |-> None,
     solves |-> 0,
     finished_enqueued |-> 0,
     processed |-> <<>>,
     at_finished |-> None,
     text_shown |-> FALSE,
     modal_shown |-> FALSE]

\* CrafterStats::default(), two of its fields; the 255 of
\* intermediate_attached_job(); the length of crafter_stats.
DefaultStats == [craftsmanship |-> 0, control |-> 0]
INTERMEDIATE_JOB == 255
NUM_JOBS == 8

\* Option<u8> of attached_job: Some(job) is the one-element sequence, None
\* the empty one.
Some(job) == <<job>>
Detached == <<>>

\* impl Default for CrafterConfig
CrafterConfig_default ==
    [selected_job |-> 1,
     crafter_stats |-> [j \in 0 .. NUM_JOBS - 1 |-> DefaultStats],
     working_stats |-> DefaultStats,
     attached_job |-> Some(INTERMEDIATE_JOB)]

Init ==
    \E u \in UserSettings :
        /\ app = AppInitial
        /\ crafter_config = CrafterConfig_default
        /\ settings = Solvers[u].settings
        /\ solved_states = Solvers[u].solved_states
        /\ precompute_templates = Solvers[u].precompute_templates
        /\ iq_quality_lut = Solvers[u].iq_quality_lut
        /\ largest_progress_increase = Solvers[u].largest_progress_increase
        /\ interrupt_signal = FALSE
        /\ pc = "Constructed"
        /\ next_precompute_step_budget = 0
        /\ pending = {}
        /\ solved_templates = EmptyMap
        /\ calls = 0
        /\ last_query = NoQuery

\* precompute() is entered: next_precompute_step_budget = 1.
Precompute ==
    /\ pc \in {"Constructed", "Ready"}
    /\ calls < MaxCalls
    /\ pc' = "Precomputing"
    /\ next_precompute_step_budget' = 1
    /\ last_query = NoQuery
    /\ calls' = calls + 1
    /\ UNCHANGED <<app, crafter_config, settings, interrupt_signal, solved_states, precompute_templates,
                   pending, solved_templates, iq_quality_lut, largest_progress_increase,
                   last_query>>

\* LayerStart whose loop condition does not read the flag.
LayerStart_ignores_flag ==
    /\ pc = "Precomputing"
    /\ precompute_templates # {}
    /\ pending' = {Template_instantiate(t, next_precompute_step_budget) :
                        t \in precompute_templates}
    /\ solved_templates' = EmptyMap
    /\ pc' = "Solving"
    /\ UNCHANGED <<app, crafter_config, settings, interrupt_signal, solved_states, precompute_templates,
                   next_precompute_step_budget, iq_quality_lut,
                   largest_progress_increase, calls, last_query>>

\* The loop condition holds: instantiate and deduplicate the templates.
LayerStart ==
    /\ pc = "Precomputing"
    /\ precompute_templates # {}
    /\ ~interrupt_signal
    /\ pending' = {Template_instantiate(t, next_precompute_step_budget) :
                        t \in precompute_templates}
    /\ solved_templates' = EmptyMap
    /\ pc' = "Solving"
    /\ UNCHANGED <<app, crafter_config, settings, interrupt_signal, solved_states, precompute_templates,
                   next_precompute_step_budget, iq_quality_lut,
                   largest_progress_increase, calls, last_query>>

\* The loop condition fails: precompute() returns.
PrecomputeReturn ==
    /\ pc = "Precomputing"
    /\ (precompute_templates = {} \/ interrupt_signal)
    /\ pc' = "Ready"
    /\ UNCHANGED <<app, crafter_config, settings, interrupt_signal, solved_states, precompute_templates,
                   next_precompute_step_budget, pending, solved_templates,
                   iq_quality_lut, largest_progress_increase, calls, last_query>>

\* SolveState on a worker whose builder is not cleared between the states
\* it solves: the frontier of the state solved before is merged into the
\* result.
SolveState_stale_builder(state) ==
    /\ pc = "Solving"
    /\ state \in pending
    /\ LET r == solve_precompute_state(Self,
                    ParetoFrontBuilder_new(settings.max_progress, settings.max_quality),
                    state)
           stale == IF solved_templates = EmptyMap THEN <<>>
                    ELSE solved_templates[CHOOSE k \in DOMAIN solved_templates : TRUE]
       IN  IF r.unreachable
           THEN /\ pc' = "Panicked"
                /\ UNCHANGED <<pending, solved_templates>>
           ELSE /\ pending' = pending \ {state}
                /\ solved_templates' =
                        (state :> MergeFronts(r.front, stale, settings.max_progress,
                                              settings.max_quality)) @@ solved_templates
                /\ pc' = pc
    /\ UNCHANGED <<app, crafter_config, settings, interrupt_signal, solved_states, precompute_templates,
                   next_precompute_step_budget, iq_quality_lut,
                   largest_progress_increase, calls, last_query>>

\* SolveState on a worker that gives up once the flag is raised and hands
\* back the frontier it has so far.
SolveState_abort(state) ==
    /\ pc = "Solving"
    /\ state \in pending
    /\ LET r == solve_precompute_state(Self,
                    ParetoFrontBuilder_new(settings.max_progress, settings.max_quality),
                    state)
       IN  IF r.unreachable
           THEN /\ pc' = "Panicked"
                /\ UNCHANGED <<pending, solved_templates>>
           ELSE /\ pending' = pending \ {state}
                /\ solved_templates' =
                        (state :> IF interrupt_signal THEN <<ParetoValue_new(0, 0)>>
                                  ELSE r.front) @@ solved_templates
                /\ pc' = pc
    /\ UNCHANGED <<app, crafter_config, settings, interrupt_signal, solved_states, precompute_templates,
                   next_precompute_step_budget, iq_quality_lut,
                   largest_progress_increase, calls, last_query>>

\* SolveState on a worker that inserts its result into SolvedStates itself,
\* while the other workers of the layer are still running.
SolveState_inserts_directly(state) ==
    /\ pc = "Solving"
    /\ state \in pending
    /\ LET r == solve_precompute_state(Self,
                    ParetoFrontBuilder_new(settings.max_progress, settings.max_quality),
                    state)
       IN  IF r.unreachable
           THEN /\ pc' = "Panicked"
                /\ UNCHANGED <<pending, solved_templates, solved_states>>
           ELSE /\ pending' = pending \ {state}
                /\ solved_templates' = (state :> r.front) @@ solved_templates
                /\ solved_states' = (state :> r.front) @@ solved_states
                /\ pc' = pc
    /\ UNCHANGED <<app, crafter_config, settings, interrupt_signal, precompute_templates,
                   next_precompute_step_budget, iq_quality_lut,
                   largest_progress_increase, calls, last_query>>

\* SolveState on a worker whose result is lost from the collected list.
SolveState_drops_result(state) ==
    /\ pc = "Solving"
    /\ state \in pending
    /\ LET r == solve_precompute_state(Self,
                    ParetoFrontBuilder_new(settings.max_progress, settings.max_quality),
                    state)
       IN  IF r.unreachable
           THEN /\ pc' = "Panicked"
                /\ UNCHANGED <<pending, solved_templates>>
           ELSE /\ pending' = pending \ {state}
                /\ solved_templates' = solved_templates
                /\ pc' = pc
    /\ UNCHANGED <<app, crafter_config, settings, interrupt_signal, solved_states, precompute_templates,
                   next_precompute_step_budget, iq_quality_lut,
                   largest_progress_increase, calls, last_query>>

\* Some worker solves one instantiated state of the layer; the map is only
\* read.  Any schedule on any number of workers is a sequence of these.
SolveState(state) ==
    /\ pc = "Solving"
    /\ state \in pending
    /\ LET r == solve_precompute_state(Self,
                    ParetoFrontBuilder_new(settings.max_progress, settings.max_quality),
                    state)
       IN  IF r.unreachable
           THEN /\ pc' = "Panicked"
                /\ UNCHANGED <<pending, solved_templates>>
           ELSE /\ pending' = pending \ {state}
                /\ solved_templates' = (state :> r.front) @@ solved_templates
                /\ pc' = pc
    /\ UNCHANGED <<app, crafter_config, settings, interrupt_signal, solved_states, precompute_templates,
                   next_precompute_step_budget, iq_quality_lut,
                   largest_progress_increase, calls, last_query>>

\* The filter closure that drops a template one progress point early.
Retain_one_short(self, template, step_budget) ==
    LET state == Template_instantiate(template, step_budget)
        pareto_front == self.solved_states[state]
        value == pareto_front[Len(pareto_front)]
        max_needed_quality ==
            IF state.effects.allow_quality_actions
            THEN saturating_sub(self.settings.max_quality,
                                self.iq_quality_lut[state.effects.inner_quiet + 1])
            ELSE 0
    IN  value.first + 1 < self.settings.max_progress \/ value.second < max_needed_quality

\* The filter closure with "and" for "or": a template is dropped as soon as
\* either target is met by the last point.
Retain_both_short(self, template, step_budget) ==
    LET state == Template_instantiate(template, step_budget)
        pareto_front == self.solved_states[state]
        value == pareto_front[Len(pareto_front)]
        max_needed_quality ==
            IF state.effects.allow_quality_actions
            THEN saturating_sub(self.settings.max_quality,
                                self.iq_quality_lut[state.effects.inner_quiet + 1])
            ELSE 0
    IN  value.first < self.settings.max_progress /\ value.second < max_needed_quality

\* The filter closure of precompute().
Retain(self, template, step_budget) ==
    LET state == Template_instantiate(template, step_budget)
        pareto_front == self.solved_states[state]
        value == pareto_front[Len(pareto_front)]
        max_needed_quality ==
            IF state.effects.allow_quality_actions
            THEN saturating_sub(self.settings.max_quality,
                                self.iq_quality_lut[state.effects.inner_quiet + 1])
            ELSE 0
    IN  value.first < self.settings.max_progress \/ value.second < max_needed_quality

\* LayerFinish that replaces the map by the layer's results instead of
\* extending it.
LayerFinish_replace ==
    /\ pc = "Solving"
    /\ pending = {}
    /\ LET extended == solved_templates
           self2 == [Self EXCEPT !.solved_states = extended]
           unwrap_fails ==
               \E t \in precompute_templates :
                   LET k == Template_instantiate(t, next_precompute_step_budget)
                   IN  k \notin DOMAIN extended \/ extended[k] = <<>>
       IN  /\ solved_states' = extended
           /\ IF unwrap_fails
              THEN /\ pc' = "Panicked"
                   /\ UNCHANGED <<precompute_templates, next_precompute_step_budget>>
              ELSE /\ precompute_templates' =
                        {t \in precompute_templates :
                            Retain(self2, t, next_precompute_step_budget)}
                   /\ next_precompute_step_budget' =
                        saturating_add_u8(next_precompute_step_budget, 1)
                   /\ pc' = "Precomputing"
    /\ solved_templates' = EmptyMap
    /\ UNCHANGED <<app, crafter_config, settings, interrupt_signal, pending, iq_quality_lut,
                   largest_progress_increase, calls, last_query>>

\* After the parallel region: extend solved_states, filter the templates,
\* advance the budget.
LayerFinish ==
    /\ pc = "Solving"
    /\ pending = {}
    /\ LET extended == solved_templates @@ solved_states
           self2 == [Self EXCEPT !.solved_states = extended]
           unwrap_fails ==
               \E t \in precompute_templates :
                   LET k == Template_instantiate(t, next_precompute_step_budget)
                   IN  k \notin DOMAIN extended \/ extended[k] = <<>>
       IN  /\ solved_states' = extended
           /\ IF unwrap_fails
              THEN /\ pc' = "Panicked"
                   /\ UNCHANGED <<precompute_templates, next_precompute_step_budget>>
              ELSE /\ precompute_templates' =
                        {t \in precompute_templates :
                            Retain(self2, t, next_precompute_step_budget)}
                   /\ next_precompute_step_budget' =
                        saturating_add_u8(next_precompute_step_budget, 1)
                   /\ pc' = "Precomputing"
    /\ solved_templates' = EmptyMap
    /\ UNCHANGED <<app, crafter_config, settings, interrupt_signal, pending, iq_quality_lut,
                   largest_progress_increase, calls, last_query>>

\* The owner of the flag raises it / clears it.
SetInterrupt ==
    /\ ~interrupt_signal
    /\ pc \notin {"Panicked", "Aborted"}
    /\ \/ next_precompute_step_budget <= MaxCancelBudget
       \/ next_precompute_step_budget = U8_MAX
    /\ interrupt_signal' = TRUE
    /\ UNCHANGED <<app, crafter_config, settings, solved_states, precompute_templates, pc,
                   next_precompute_step_budget, pending, solved_templates,
                   iq_quality_lut, largest_progress_increase, calls, last_query>>

ClearInterrupt ==
    /\ interrupt_signal
    /\ pc \in {"Constructed", "Ready"}
    /\ interrupt_signal' = FALSE
    /\ UNCHANGED <<app, crafter_config, settings, solved_states, precompute_templates, pc,
                   next_precompute_step_budget, pending, solved_templates,
                   iq_quality_lut, largest_progress_increase, calls, last_query>>

\* The outer search asks for a bound (&mut self: one call at a time, never
\* during precompute); last_query holds the call and its result until the
\* caller has taken it.
QueryQualityUpperBound(state, step_budget) ==
    /\ pc \in {"Constructed", "Ready"}
    /\ last_query = NoQuery
    /\ last_query' = [op |-> "quality_upper_bound", state |-> state,
                      arg |-> step_budget,
                      result |-> quality_upper_bound(Self, state, step_budget)]
    /\ UNCHANGED <<app, crafter_config, settings, interrupt_signal, solved_states, precompute_templates, pc,
                   next_precompute_step_budget, pending, solved_templates,
                   iq_quality_lut, largest_progress_increase, calls>>

QueryStepLowerBound(state, hint) ==
    /\ pc \in {"Constructed", "Ready"}
    /\ last_query = NoQuery
    /\ last_query' = [op |-> "step_lower_bound", state |-> state, arg |-> hint,
                      result |-> step_lower_bound(Self, state, hint)]
    /\ pc' = IF last_query'.result.kind = "Panic" THEN "Aborted" ELSE pc
    /\ UNCHANGED <<app, crafter_config, settings, interrupt_signal, solved_states, precompute_templates,
                   next_precompute_step_budget, pending, solved_templates,
                   iq_quality_lut, largest_progress_increase, calls>>

QueryReturn ==
    /\ last_query # NoQuery
    /\ pc # "Aborted"
    /\ last_query' = NoQuery
    /\ UNCHANGED <<app, crafter_config, settings, interrupt_signal, solved_states, precompute_templates, pc,
                   next_precompute_step_budget, pending, solved_templates,
                   iq_quality_lut, largest_progress_increase, calls>>

-----------------------------------------------------------------------------
(* precompute() run on one thread with the flag never raised: the layers   *)
(* one after the other, each solved in one go.                             *)

RECURSIVE SolveAll(_, _, _)
SolveAll(self, states, acc) ==
    IF states = {} THEN acc
    ELSE LET s == CHOOSE x \in states : TRUE
             r == solve_precompute_state(self,
                    ParetoFrontBuilder_new(self.settings.max_progress,
                                           self.settings.max_quality), s)
         IN  SolveAll(self, states \ {s},
                      [unreachable |-> acc.unreachable \/ r.unreachable,
                       solved_templates |-> (s :> r.front) @@ acc.solved_templates])

SolveLayer(self, templates, step_budget) ==
    LET done == SolveAll(self,
                    {Template_instantiate(t, step_budget) : t \in templates},
                    [unreachable |-> FALSE, solved_templates |-> EmptyMap])
    IN  [unreachable |-> done.unreachable,
         solved_states |-> done.solved_templates @@ self.solved_states]

\* One iteration of the while loop; run = [solved_states, templates,
\* step_budget, unreachable].
RunLayer(slv, run) ==
    IF run.templates = {} \/ run.unreachable THEN run
    ELSE
    LET self == [settings |-> slv.settings, solved_states |-> run.solved_states,
                 iq_quality_lut |-> slv.iq_quality_lut,
                 largest_progress_increase |-> slv.largest_progress_increase]
        layer == SolveLayer(self, run.templates, run.step_budget)
        self2 == [self EXCEPT !.solved_states = layer.solved_states]
    IN  IF layer.unreachable THEN [run EXCEPT !.unreachable = TRUE]
        ELSE [solved_states |-> layer.solved_states,
              templates |-> {t \in run.templates : Retain(self2, t, run.step_budget)},
              step_budget |-> saturating_add_u8(run.step_budget, 1),
              unreachable |-> FALSE]

\* n iterations (split in halves to keep the evaluation shallow).  The
\* budget saturated at U8_MAX only repeats its layer.
RECURSIVE RunLayers(_, _, _)
RunLayers(slv, run, n) ==
    IF n = 0 THEN run
    ELSE IF n = 1 THEN RunLayer(slv, run)
    ELSE LET half == RunLayers(slv, run, n \div 2)
         IN  IF half.templates = {} \/ half.unreachable THEN half
             ELSE RunLayers(slv, half, n - (n \div 2))

UncancelledRun ==
    [u \in UserSettings |->
        RunLayers(Solvers[u],
                  [solved_states |-> Solvers[u].solved_states,
                   templates |-> Solvers[u].precompute_templates,
                   step_budget |-> 1, unreachable |-> FALSE],
                  U8_MAX)]

Next ==
    \/ Precompute
    \/ LayerStart
    \/ PrecomputeReturn
    \/ \E state \in pending : SolveState(state)
    \/ LayerFinish
    \/ SetInterrupt
    \/ ClearInterrupt
    \/ \E state \in QueryStates[UserOf(settings)], b \in QueryBudgets :
            QueryQualityUpperBound(state, b)
    \/ \E state \in QueryStates[UserOf(settings)], hint \in QueryHints :
            QueryStepLowerBound(state, hint)
    \/ QueryReturn

Spec == Init /\ [][Next]_vars

-----------------------------------------------------------------------------
(* Exhaustive search over the simulator with the caller's settings: the    *)
(* reference the two bounds are compared with.                             *)

StepSuccessors(u, S, n) ==
    {r.state : r \in {x \in {use_action_combo(u, s, a) :
                                s \in S,
                                a \in {c \in Range(FULL_SEARCH_ACTIONS) : ActionSteps(c) = n}} :
                        x.ok}}

\* layers[j + 1]: the states some action sequence of total step count <= j
\* leads to.
RECURSIVE SearchLayers(_, _, _)
SearchLayers(u, layers, k) ==
    IF k = 0 THEN layers
    ELSE LET n == Len(layers)
             cur == layers[n]
             two == IF n >= 2 THEN StepSuccessors(u, layers[n - 1], 2) ELSE {}
             next == cur \cup StepSuccessors(u, cur, 1) \cup two
         IN  SearchLayers(u, layers \o <<next>>, k - 1)

\* Per step count 1..MaxSearchSteps, the (progress, quality) outcomes of the
\* sequences that reach max_progress within that many steps.
RECURSIVE CompletedOutcomes(_, _, _)
CompletedOutcomes(u, layers, j) ==
    IF j > Len(layers) THEN <<>>
    ELSE <<{x.quality : x \in {t \in layers[j] : t.progress >= u.max_progress}}>>
            \o CompletedOutcomes(u, layers, j + 1)

RECURSIVE SearchAll(_, _, _)
SearchAll(u, states, acc) ==
    IF states = {} THEN acc
    ELSE LET s == CHOOSE x \in states : TRUE
             out == CompletedOutcomes(u, SearchLayers(u, <<{s}>>, MaxSearchSteps), 2)
         IN  SearchAll(u, states \ {s}, (s :> out) @@ acc)

\* ExhaustiveSearch[u][s][n]: the qualities with which the craft can be
\* completed from s in at most n steps.
ExhaustiveSearch ==
    [u \in UserSettings |-> SearchAll(u, QueryStates[u], EmptyMap)]

User == UserOf(settings)

\* C2 as stated: Ok(Some(q)) is at least every quality with which the craft
\* can be completed from s within b steps, and Ok(None) means it cannot be
\* completed within b steps.
C2_QualityUpperBoundAdmissible ==
    (last_query.op = "quality_upper_bound" /\ last_query.result.kind = "Ok") =>
        LET reachable == ExhaustiveSearch[User][last_query.state][last_query.arg]
        IN  IF last_query.result.some
            THEN \A q \in reachable : last_query.result.value >= q
            ELSE reachable = {}

\* C2 amended: Ok(Some(q)) is at least min(max_quality, q') for every quality
\* q' with which the craft can be completed from s within b steps (MuscleMemory
\* states included); Ok(None) means it cannot be completed within b steps.
C2_QualityUpperBoundAdmissibleSaturated ==
    (last_query.op = "quality_upper_bound" /\ last_query.result.kind = "Ok") =>
        LET reachable == ExhaustiveSearch[User][last_query.state][last_query.arg]
        IN  IF last_query.result.some
            THEN \A q \in reachable :
                    last_query.result.value >= Min(q, User.max_quality)
            ELSE reachable = {}

\* A MuscleMemory state was queried, got a bound, and the craft can indeed
\* be completed from it within the budget.
C2_Witness ==
    /\ last_query.op = "quality_upper_bound"
    /\ last_query.result.kind = "Ok" /\ last_query.result.some
    /\ last_query.state.effects.muscle_memory > 0
    /\ ExhaustiveSearch[User][last_query.state][last_query.arg] # {}

\* C3: step_lower_bound(s, 1) = Ok(n) never exceeds the number of steps of
\* any action sequence from s that reaches max_progress and max_quality.
C3_StepLowerBoundAdmissible ==
    (/\ last_query.op = "step_lower_bound" /\ last_query.arg = 1
     /\ last_query.result.kind = "Ok") =>
        \A n \in 1..MaxSearchSteps :
            (\E q \in ExhaustiveSearch[User][last_query.state][n] :
                    q >= User.max_quality)
                => last_query.result.value <= n

\* step_lower_bound(s, 1) answered with exactly the true minimum, found by
\* probing the layers (no shortcut).
C3_Witness ==
    /\ last_query.op = "step_lower_bound" /\ last_query.arg = 1
    /\ last_query.result.kind = "Ok" /\ last_query.result.probes >= 2
    /\ \E q \in ExhaustiveSearch[User][last_query.state][last_query.result.value] :
            q >= User.max_quality

-----------------------------------------------------------------------------
(* Frontier well-formedness *)

WellFormed(st, front) ==
    /\ \A i \in 1..Len(front) :
            front[i].first <= st.max_progress /\ front[i].second <= st.max_quality
    /\ \A i \in 1..(Len(front) - 1) :
            front[i].first < front[i + 1].first /\ front[i].second > front[i + 1].second

\* C1: every frontier in SolvedStates (and every frontier a worker hands
\* back) is strictly progress-increasing, strictly quality-decreasing and
\* within max_progress / max_quality.
C1_FrontierWellFormed ==
    /\ \A k \in DOMAIN solved_states : WellFormed(settings, solved_states[k])
    /\ \A k \in DOMAIN solved_templates : WellFormed(settings, solved_templates[k])

Child(state, action) ==
    LET r == use_action_combo(settings, ReducedState_to_state(state), action)
    IN  [ok |-> r.ok /\ state.steps_budget > ActionSteps(action)
                     /\ r.state.durability > 0,
         state |-> ReducedState_from_state(r.state,
                                           state.steps_budget - ActionSteps(action))]

\* SolvedStates holds a multi-point frontier built from a shifted child
\* frontier and a frontier built from the synthetic frontier.
C1_Witness ==
    /\ \E k \in DOMAIN solved_states :
        /\ Len(solved_states[k]) >= 2
        /\ \E a \in Range(FULL_SEARCH_ACTIONS) :
                Child(k, a).ok /\ Child(k, a).state \in DOMAIN solved_states
    /\ \E k \in DOMAIN solved_states :
            \E a \in Range(FULL_SEARCH_ACTIONS) :
                /\ Child(k, a).ok /\ Child(k, a).state \notin DOMAIN solved_states
                /\ ~Child(k, a).state.effects.allow_quality_actions

-----------------------------------------------------------------------------
(* The layered precompute against the uncancelled sequential run *)

Reference == UncancelledRun[User].solved_states

ReferenceSelf == [Self EXCEPT !.solved_states = Reference]

LayersBelow(map, step_budget) ==
    [k \in {x \in DOMAIN map : x.steps_budget < step_budget} |-> map[k]]

\* The key quality_upper_bound looks up for (state, step_budget).
QueryKey(state, step_budget) ==
    ReducedState_from_state([state EXCEPT !.effects.muscle_memory = 0], step_budget)

C5_CancelSafe ==
    /\ \A k \in DOMAIN solved_states :
            k \in DOMAIN Reference /\ solved_states[k] = Reference[k]
    /\ last_query.op = "quality_upper_bound" =>
            IF QueryKey(last_query.state, last_query.arg) \in DOMAIN solved_states
            THEN last_query.result
                    = quality_upper_bound(ReferenceSelf, last_query.state, last_query.arg)
            ELSE last_query.result = Err
    /\ (last_query.op = "step_lower_bound" /\ last_query.result.kind = "Ok") =>
            last_query.result
                = step_lower_bound(ReferenceSelf, last_query.state, last_query.arg)

\* precompute() was stopped by the flag with templates still alive, and a
\* query beyond the layers it reached was answered Err after it had passed
\* the covered layers.
C5_Witness ==
    /\ pc = "Ready" /\ interrupt_signal /\ precompute_templates # {}
    /\ solved_states # EmptyMap
    /\ last_query.op = "step_lower_bound"
    /\ last_query.result.kind = "Err" /\ last_query.result.probes >= 2

DominatedBy(front1, front2) ==
    \A i \in 1..Len(front1) :
        \E j \in 1..Len(front2) :
            front2[j].first >= front1[i].first /\ front2[j].second >= front1[i].second

\* C6: the budgets stored for one durability and effects are 1, 2, 3, ...
\* without a gap, and each frontier dominates the frontier of the budget
\* below it point-wise; dominance being transitive, the frontier at b2
\* dominates the frontier at every b1 < b2.
C6_MonotoneLayering ==
    \A k2 \in DOMAIN solved_states :
        k2.steps_budget > 1 =>
            LET k1 == [k2 EXCEPT !.steps_budget = @ - 1]
            IN  /\ k1 \in DOMAIN solved_states
                /\ DominatedBy(solved_states[k1], solved_states[k2])

\* The same template is stored at three budgets with multi-point frontiers.
C6_Witness ==
    \E k \in DOMAIN solved_states :
        /\ k.steps_budget >= 3
        /\ Len(solved_states[k]) >= 2
        /\ [k EXCEPT !.steps_budget = 1] \in DOMAIN solved_states
        /\ Len(solved_states[[k EXCEPT !.steps_budget = 2]]) >= 2

\* C7: no step of the solver removes a key of SolvedStates or changes the
\* frontier stored under it.
C7_AppendOnly ==
    [][\A k \in DOMAIN solved_states :
            k \in DOMAIN solved_states' /\ solved_states'[k] = solved_states[k]]_vars

\* The layer of the saturated budget 255 has been solved again and is about
\* to be inserted over the entries it already has.
C7_Witness ==
    /\ pc = "Solving" /\ pending = {}
    /\ next_precompute_step_budget = U8_MAX
    /\ \E k \in DOMAIN solved_templates : k \in DOMAIN solved_states

\* C8: once a first precompute() has returned, a later call changes neither
\* SolvedStates nor the alive templates.
C8_PrecomputeOnce ==
    [][calls >= 2 =>
            /\ solved_states' = solved_states
            /\ precompute_templates' = precompute_templates]_vars

\* The outcome of a query, as a predicate of the state holding it.
UnknownIsError ==
    /\ last_query.op = "quality_upper_bound" =>
            (QueryKey(last_query.state, last_query.arg) \notin DOMAIN solved_states
                => last_query.result = Err)
    /\ (/\ last_query.op = "step_lower_bound"
        /\ ~(/\ ~last_query.state.effects.allow_quality_actions
             /\ last_query.state.quality < settings.max_quality)) =>
            /\ QueryKey(last_query.state, Max(last_query.arg, 1)) \notin DOMAIN solved_states
                    => last_query.result.kind = "Err"
            /\ last_query.result.kind = "Ok" =>
                    QueryKey(last_query.state, last_query.result.value)
                        \in DOMAIN solved_states
            /\ last_query.result.kind = "Err" =>
                    QueryKey(last_query.state,
                             Max(last_query.arg, 1) + last_query.result.probes - 1)
                        \notin DOMAIN solved_states

\* C9: a query that reaches a key missing from SolvedStates is answered Err
\* (quality_upper_bound directly, step_lower_bound by propagation, never
\* with a number) and leaves SolvedStates as it was.
C9_UnknownStateIsError ==
    [][(last_query = NoQuery /\ last_query' # NoQuery) =>
            UnknownIsError' /\ solved_states' = solved_states]_vars

\* After a cancelled precompute, step_lower_bound passed a covered budget
\* and then failed on the first missing one.
C9_Witness ==
    /\ pc = "Ready" /\ solved_states # EmptyMap
    /\ last_query.op = "step_lower_bound"
    /\ last_query.result.kind = "Err" /\ last_query.result.probes = 2
    /\ last_query.state.effects.muscle_memory > 0

\* C10: step_lower_bound answers Ok(255) without a lookup exactly when the
\* state disallows quality actions and its quality is below max_quality;
\* otherwise it looks SolvedStates up at least once.
C10_InfeasibleShortcut ==
    last_query.op = "step_lower_bound" =>
        IF /\ ~last_query.state.effects.allow_quality_actions
           /\ last_query.state.quality < settings.max_quality
        THEN last_query.result = [kind |-> "Ok", value |-> U8_MAX, probes |-> 0]
        ELSE last_query.result.probes >= 1

\* The shortcut was taken before precompute() ever ran.
C10_Witness ==
    /\ pc = "Constructed" /\ calls = 0
    /\ last_query.op = "step_lower_bound"
    /\ last_query.result = [kind |-> "Ok", value |-> U8_MAX, probes |-> 0]

\* What one probe of the loop of step_lower_bound finds at a budget.
Sufficient(state, step_budget) ==
    LET r == quality_upper_bound(Self, state, step_budget)
    IN  r.kind = "Ok" /\ r.some /\ r.value >= settings.max_quality

Insufficient(state, step_budget) ==
    LET r == quality_upper_bound(Self, state, step_budget)
    IN  r.kind = "Ok" /\ (~r.some \/ r.value < settings.max_quality)

\* C11: when step_lower_bound answers Ok(b) outside its shortcut, b is the
\* smallest budget >= max(hint, 1) at which quality_upper_bound is Some(q)
\* with q >= max_quality: every budget from max(hint, 1) up to b - 1 gave
\* None or a quality below max_quality, and none of them gave an error.
C11_SmallestSufficientBudget ==
    (/\ last_query.op = "step_lower_bound"
     /\ last_query.result.kind = "Ok"
     /\ ~(/\ ~last_query.state.effects.allow_quality_actions
          /\ last_query.state.quality < settings.max_quality)) =>
        /\ last_query.result.value >= Max(last_query.arg, 1)
        /\ Sufficient(last_query.state, last_query.result.value)
        /\ \A b \in Max(last_query.arg, 1) .. last_query.result.value - 1 :
                Insufficient(last_query.state, b)

\* step_lower_bound was given a hint above 1, found it too small and
\* answered a larger budget.
C11_Witness ==
    /\ last_query.op = "step_lower_bound"
    /\ last_query.result.kind = "Ok"
    /\ last_query.arg >= 2
    /\ last_query.result.probes >= 2
    /\ last_query.result.value = last_query.arg + last_query.result.probes - 1

\* C12: every failure of a bound query is delivered as Err: for every state
\* and every hint, step_lower_bound ends with Ok(b), 1 <= b <= 255, or with
\* Err, and never aborts in the increment of the budget.
C12_FailuresAreErrors ==
    last_query.op = "step_lower_bound" =>
        /\ last_query.result.kind \in {"Ok", "Err"}
        /\ last_query.result.kind = "Ok" => last_query.result.value \in 1 .. U8_MAX

\* The progress quality_upper_bound requires of the frontier for a state.
RequiredProgress(state) ==
    IF state.effects.muscle_memory # 0
    THEN saturating_sub(settings.max_progress - state.progress,
                        largest_progress_increase)
    ELSE settings.max_progress - state.progress

\* The indices of the frontier points with progress >= required.
Eligible(front, required) == {i \in 1 .. Len(front) : front[i].first >= required}

\* C13: when the reduced state is a key of SolvedStates, quality_upper_bound
\* answers None exactly when no frontier point has progress >= the required
\* progress, and otherwise state.quality + q for the frontier point (p, q)
\* that has the smallest progress and the largest quality among the points
\* with progress >= the required progress.
C13_PicksSmallestSufficientPoint ==
    (/\ last_query.op = "quality_upper_bound"
     /\ QueryKey(last_query.state, last_query.arg) \in DOMAIN solved_states) =>
        LET front == solved_states[QueryKey(last_query.state, last_query.arg)]
            eligible == Eligible(front, RequiredProgress(last_query.state))
        IN  /\ last_query.result.kind = "Ok"
            /\ last_query.result.some <=> eligible # {}
            /\ last_query.result.some =>
                \E i \in eligible :
                    /\ last_query.result.value = last_query.state.quality + front[i].second
                    /\ \A j \in eligible :
                        /\ front[i].first <= front[j].first
                        /\ front[i].second >= front[j].second

\* quality_upper_bound chose among several eligible points of a frontier,
\* and not the one of largest progress.
C13_Witness ==
    /\ last_query.op = "quality_upper_bound"
    /\ QueryKey(last_query.state, last_query.arg) \in DOMAIN solved_states
    /\ LET front == solved_states[QueryKey(last_query.state, last_query.arg)]
           eligible == Eligible(front, RequiredProgress(last_query.state))
       IN  /\ Cardinality(eligible) >= 2
           /\ last_query.result.some
           /\ last_query.result.value >
                last_query.state.quality + front[Len(front)].second

\* quality_upper_bound answered None on a known key because the frontier
\* stops short of the required progress.
C13_WitnessNone ==
    /\ last_query.op = "quality_upper_bound"
    /\ QueryKey(last_query.state, last_query.arg) \in DOMAIN solved_states
    /\ last_query.result = Ok(FALSE, 0)

\* The first precompute() has inserted the layer of budget 255: the budget
\* has saturated (255.saturating_add(1) = 255).
Saturated ==
    /\ calls = 1
    /\ next_precompute_step_budget = U8_MAX
    /\ \E k \in DOMAIN solved_states : k.steps_budget = U8_MAX

\* C19: precompute() terminates for every settings value; in particular,
\* once the budget has saturated at 255 the loop ends: it starts no further
\* layer, even if a template is still alive and the flag is never set.
C19_EndsAtSaturation ==
    [][(pc = "Precomputing" /\ Saturated) => pc' # "Solving"]_vars

\* A step that ends a layer and puts precompute(), with the flag clear, back
\* at the very loop head the layer started from (the same budget, templates
\* and SolvedStates): an uncancelled run repeats from there for ever.
LoopHeadRecurs ==
    /\ pc = "Solving" /\ pc' = "Precomputing"
    /\ ~interrupt_signal'
    /\ next_precompute_step_budget' = next_precompute_step_budget
    /\ precompute_templates' = precompute_templates
    /\ solved_states' = solved_states

\* The first precompute() was started and has returned.
Precomputed == calls >= 1 /\ pc = "Ready"

\* C14: scenario S1: after construction the run of precompute() comes to an
\* end (its loop never returns to a loop head it has been at), and once it
\* has returned with the layers up to budget 3, step_lower_bound(initial, 1)
\* answers 3.
C14_ScenarioS1 ==
    /\ [][(User = SettingsS1 /\ calls = 1) => ~LoopHeadRecurs]_vars
    /\ [](/\ User = SettingsS1 /\ Precomputed
          /\ last_query.op = "step_lower_bound"
          /\ last_query.state = SimulationState_new(SettingsS1)
          /\ last_query.arg = 1
          /\ QueryKey(last_query.state, 3) \in DOMAIN solved_states
          => last_query.result = [kind |-> "Ok", value |-> 3, probes |-> 3])

\* The part of C14 about the value: whenever precompute() has returned in S1
\* with the layers up to budget 3, step_lower_bound(initial, 1) answers 3.
C14_ValueS1 ==
    (/\ User = SettingsS1 /\ Precomputed
     /\ last_query.op = "step_lower_bound"
     /\ last_query.state = SimulationState_new(SettingsS1)
     /\ last_query.arg = 1
     /\ QueryKey(last_query.state, 3) \in DOMAIN solved_states)
        => last_query.result = [kind |-> "Ok", value |-> 3, probes |-> 3]

\* In the three scenario settings precompute() returns only when the flag is
\* set: some template never reaches max_progress.
ReturnsOnlyOnCancel ==
    [][(/\ User \in {SettingsS1, SettingsS2, SettingsS4}
        /\ pc = "Precomputing" /\ pc' = "Ready") => interrupt_signal]_vars

\* C15 as stated: scenario S2: after precompute() has returned with the
\* layers up to budget 7, step_lower_bound on the initial state answers 7.
C15_ScenarioS2 ==
    (/\ User = SettingsS2 /\ Precomputed
     /\ last_query.op = "step_lower_bound"
     /\ last_query.state = SimulationState_new(SettingsS2)
     /\ last_query.arg <= 7
     /\ QueryKey(last_query.state, 7) \in DOMAIN solved_states)
        => last_query.result.kind = "Ok" /\ last_query.result.value = 7

\* C15, amended: in scenario S2 no budget is sufficient for the initial
\* state: durability 30 allows three actions of durability cost 10, and
\* three actions that reach 100 progress leave quality 0.  So
\* quality_upper_bound(initial, b), where it is known, is None below 3 steps
\* and Some(0) from 3 steps on, and step_lower_bound(initial, hint) never
\* answers Ok.
C15_ScenarioS2NoBound ==
    (/\ User = SettingsS2 /\ last_query # NoQuery
     /\ last_query.state = SimulationState_new(SettingsS2)) =>
        /\ last_query.op = "step_lower_bound" => last_query.result.kind # "Ok"
        /\ (last_query.op = "quality_upper_bound" /\ last_query.result.kind = "Ok") =>
                last_query.result = IF last_query.arg < 3 THEN Ok(FALSE, 0) ELSE Ok(TRUE, 0)

\* In S2, after precompute(), step_lower_bound on the initial state went
\* past budget 3, where the progress target is met, without an answer.
C15_Witness ==
    /\ User = SettingsS2 /\ Precomputed
    /\ last_query.op = "step_lower_bound"
    /\ last_query.state = SimulationState_new(SettingsS2)
    /\ last_query.result.kind # "Ok"
    /\ last_query.result.probes >= 4

\* C16: scenario S4: after construction the run of precompute() comes to an
\* end (its loop never returns to a loop head it has been at), and once it
\* has returned with the layers up to budget 2, quality_upper_bound(initial,
\* 2) answers Some(100).
C16_ScenarioS4 ==
    /\ [][(User = SettingsS4 /\ calls = 1) => ~LoopHeadRecurs]_vars
    /\ [](/\ User = SettingsS4 /\ Precomputed
          /\ last_query.op = "quality_upper_bound"
          /\ last_query.state = SimulationState_new(SettingsS4)
          /\ last_query.arg = 2
          /\ QueryKey(last_query.state, 2) \in DOMAIN solved_states
          => last_query.result = Ok(TRUE, 100))

\* The part of C16 about the value: whenever precompute() has returned in S4
\* with the layers up to budget 2, quality_upper_bound(initial, 2) answers
\* Some(100).
C16_ValueS4 ==
    (/\ User = SettingsS4 /\ Precomputed
     /\ last_query.op = "quality_upper_bound"
     /\ last_query.state = SimulationState_new(SettingsS4)
     /\ last_query.arg = 2
     /\ QueryKey(last_query.state, 2) \in DOMAIN solved_states)
        => last_query.result = Ok(TRUE, 100)

\* The value of C16 was asked for and given.
C16_ValueReached ==
    /\ User = SettingsS4 /\ Precomputed
    /\ last_query.op = "quality_upper_bound"
    /\ last_query.state = SimulationState_new(SettingsS4)
    /\ last_query.arg = 2
    /\ last_query.result = Ok(TRUE, 100)

\* from_state(s, b) is a fixed point of to_state followed by from_state.
RoundTrips(state, step_budget) ==
    LET reduced == ReducedState_from_state(state, step_budget)
    IN  ReducedState_from_state(ReducedState_to_state(reduced), step_budget) = reduced

C18_ChildrenSolved ==
    /\ pc # "Panicked"
    /\ pc = "Solving" =>
        \A state \in pending \cup DOMAIN solved_templates :
            \A action \in Range(FULL_SEARCH_ACTIONS) :
                Child(state, action).ok =>
                    \/ Child(state, action).state \in DOMAIN solved_states
                    \/ ~Child(state, action).state.effects.allow_quality_actions

\* A layer is being solved after a template that allows quality actions was
\* evicted; one state of the layer has a child that is a key of SolvedStates
\* and allows quality actions, another has a child that is missing.
C18_Witness ==
    /\ pc = "Solving" /\ calls = 1
    /\ \E t \in Solvers[User].precompute_templates \ precompute_templates :
            t.effects.allow_quality_actions
    /\ \E state \in pending, action \in Range(FULL_SEARCH_ACTIONS) :
            /\ Child(state, action).ok
            /\ Child(state, action).state \in DOMAIN solved_states
            /\ Child(state, action).state.effects.allow_quality_actions
    /\ \E state \in pending, action \in Range(FULL_SEARCH_ACTIONS) :
            /\ Child(state, action).ok
            /\ Child(state, action).state \notin DOMAIN solved_states

\* The keys of the layer of the current budget: one per live template.
LayerKeys ==
    {Template_instantiate(t, next_precompute_step_budget) : t \in precompute_templates}

\* C20: cancellation is observed only between layers.  With the flag set at
\* the loop head, precompute() starts no layer: its only step is to return,
\* with SolvedStates and the templates as they are (so a flag set before the
\* call leaves SolvedStates empty).  A layer in progress when the flag is
\* set is still completed: SolvedStates changes only in the one step that
\* ends a layer, which inserts every state of the layer and filters the
\* templates, so SolvedStates never holds part of a layer.
C20_CancelBetweenLayers ==
    [][/\ (pc = "Precomputing" /\ interrupt_signal) =>
            /\ pc' = "Ready"
            /\ solved_states' = solved_states
            /\ precompute_templates' = precompute_templates
       /\ (pc = "Solving" /\ pc' # "Solving") =>
            /\ pc' = "Precomputing"
            /\ pending = {}
            /\ LayerKeys \subseteq DOMAIN solved_states'
            /\ DOMAIN solved_states' = DOMAIN solved_states \cup LayerKeys
            /\ precompute_templates' =
                    {t \in precompute_templates :
                        Retain([Self EXCEPT !.solved_states = solved_states'], t,
                               next_precompute_step_budget)}
       /\ solved_states' # solved_states => (pc = "Solving" /\ pc' = "Precomputing")
      ]_vars

\* The first precompute() has returned on the flag, raised no earlier than
\* the start of the layer of budget 2: that layer is in SolvedStates, whole
\* (one key per template), and no later one.
C20_Witness ==
    /\ pc = "Ready" /\ calls = 1 /\ interrupt_signal
    /\ next_precompute_step_budget = 3
    /\ precompute_templates # {}
    /\ \A t \in Solvers[User].precompute_templates :
            Template_instantiate(t, 2) \in DOMAIN solved_states
    /\ \A k \in DOMAIN solved_states : k.steps_budget <= 2

\* A flag set before precompute() was called: it returned at once and
\* SolvedStates is empty.
C20_WitnessEarly ==
    /\ pc = "Ready" /\ calls = 1 /\ interrupt_signal
    /\ solved_states = EmptyMap
    /\ precompute_templates # {}

\* The flag is up while a layer is in progress, part of it solved.
C20_WitnessMidLayer ==
    /\ pc = "Solving" /\ interrupt_signal
    /\ pending # {} /\ solved_templates # EmptyMap

\* The keys solve_precompute_state looks up in SolvedStates for a state.
Reads(state) ==
    {Child(state, action).state :
        action \in {a \in Range(FULL_SEARCH_ACTIONS) : Child(state, a).ok}}

\* C21: layers are solved one at a time in budget order: a call starts at
\* budget 1, every state of the layer in progress has the current budget,
\* and ending a layer advances the budget by one (255 stays 255).  The solve
\* of a state of budget b looks up only keys of budget < b, never one of its
\* own layer; and until the budget has saturated, no state of the layer in
\* progress of the first call is in SolvedStates yet.
C21_LayersInBudgetOrder ==
    /\ [][/\ (pc \in {"Constructed", "Ready"} /\ pc' = "Precomputing") =>
                next_precompute_step_budget' = 1
          /\ (pc = "Solving" /\ pc' = "Precomputing") =>
                next_precompute_step_budget' =
                    Min(next_precompute_step_budget + 1, U8_MAX)
          /\ (pc = "Precomputing" /\ pc' = "Solving") =>
                next_precompute_step_budget' = next_precompute_step_budget
         ]_vars
    /\ [](pc = "Solving" =>
            /\ next_precompute_step_budget >= 1
            /\ \A state \in pending \cup DOMAIN solved_templates :
                /\ state.steps_budget = next_precompute_step_budget
                /\ \A k \in Reads(state) :
                    /\ k.steps_budget < state.steps_budget
                    /\ k \notin pending \cup DOMAIN solved_templates
                /\ (calls = 1 /\ ~Saturated) => state \notin DOMAIN solved_states)

\* The layer of budget 3 is in progress, part of it solved; one of its
\* states reads a key of budget 2 and, through the two-step combo, a key of
\* budget 1.
C21_Witness ==
    /\ pc = "Solving" /\ calls = 1
    /\ next_precompute_step_budget = 3
    /\ pending # {} /\ solved_templates # EmptyMap
    /\ \E state \in pending :
        /\ \E k \in Reads(state) : k.steps_budget = 2 /\ k \in DOMAIN solved_states
        /\ \E k \in Reads(state) : k.steps_budget = 1 /\ k \in DOMAIN solved_states

\* C22: while the workers of a layer are running, SolvedStates and the
\* templates are not modified; a worker's step takes one state that is still
\* pending, solves it once and adds its result to the layer's results,
\* leaving the results of the other states as they are; the states of the
\* layer are at every moment split into pending and solved ones; and the
\* driver inserts the results only when no state is pending, all of them in
\* one step.
C22_WorkersOnlyRead ==
    /\ [][/\ (pc = "Solving" /\ pc' = "Solving") =>
                /\ solved_states' = solved_states
                /\ precompute_templates' = precompute_templates
                /\ pending' # pending =>
                    \E state \in pending :
                        /\ state \notin DOMAIN solved_templates
                        /\ pending' = pending \ {state}
                        /\ DOMAIN solved_templates' = DOMAIN solved_templates \cup {state}
                        /\ \A k \in DOMAIN solved_templates :
                                solved_templates'[k] = solved_templates[k]
                /\ pending' = pending => solved_templates' = solved_templates
          /\ (pc = "Solving" /\ pc' # "Solving") =>
                /\ pending = {}
                /\ DOMAIN solved_templates = LayerKeys
                /\ \A k \in LayerKeys : solved_states'[k] = solved_templates[k]
         ]_vars
    /\ [](pc = "Solving" =>
            /\ pending \cap DOMAIN solved_templates = {}
            /\ pending \cup DOMAIN solved_templates = LayerKeys)

\* A layer of at least three states past the first budget is being solved:
\* two states are solved, another is pending, and SolvedStates holds none of
\* the three.
C22_Witness ==
    /\ pc = "Solving" /\ calls = 1
    /\ next_precompute_step_budget >= 2
    /\ Cardinality(DOMAIN solved_templates) >= 2
    /\ pending # {}
    /\ \A k \in LayerKeys : k \notin DOMAIN solved_states

\* The last point of the frontier a map holds for a template at a budget.
LastPoint(map, template, step_budget) ==
    LET front == map[Template_instantiate(template, step_budget)]
    IN  front[Len(front)]

\* The quality a template's frontier still has to reach.
MaxNeededQuality(template) ==
    IF template.effects.allow_quality_actions
    THEN Max(0, settings.max_quality
                    - iq_quality_lut[template.effects.inner_quiet + 1])
    ELSE 0

Outcome(state, action) ==
    LET r == use_action_combo(settings, ReducedState_to_state(state), action)
    IN  [applies |-> state.steps_budget >= ActionSteps(action) /\ r.ok,
         expands |-> Child(state, action).ok,
         child |-> Child(state, action).state,
         progress |-> r.state.progress,
         quality |-> r.state.quality]

\* The frontier solve_precompute_state uses for a child: the stored one, or
\* the synthetic one for a missing child.
ChildFront(child) ==
    IF child \in DOMAIN solved_states THEN solved_states[child]
    ELSE <<ParetoValue_new(settings.max_progress, 0)>>

Saturate(value) ==
    ParetoValue_new(Min(value.first, settings.max_progress),
                    Min(value.second, settings.max_quality))

\* The points of a set that no other point of the set dominates.
Pruned(values) ==
    {v \in values :
        ~\E w \in values : w # v /\ w.first >= v.first /\ w.second >= v.second}

\* The points the expanding actions contribute to the frontier of a state.
ShiftedChildPoints(state) ==
    UNION {{ParetoValue_new(v.first + Outcome(state, a).progress,
                            v.second + Outcome(state, a).quality) :
                v \in Range(ChildFront(Outcome(state, a).child))} :
           a \in {x \in Range(FULL_SEARCH_ACTIONS) :
                    Outcome(state, x).applies /\ Outcome(state, x).expands}}

\* The outcomes of the terminal actions (applied, nothing left to expand).
TerminalPoints(state) ==
    {ParetoValue_new(Outcome(state, a).progress, Outcome(state, a).quality) :
        a \in {x \in Range(FULL_SEARCH_ACTIONS) :
                    Outcome(state, x).applies /\ ~Outcome(state, x).expands}}

\* C24 as stated: the frontier of a state is the saturated, dominance-pruned
\* union of (0, 0), the shifted frontiers of the children and the terminal
\* points of the other successful actions.
C24_FrontierIsPrunedUnion ==
    pc = "Solving" =>
        \A state \in DOMAIN solved_templates :
            Range(solved_templates[state]) =
                Pruned({Saturate(v) :
                    v \in {ParetoValue_new(0, 0)} \cup ShiftedChildPoints(state)
                            \cup TerminalPoints(state)})

\* C24, amended: of the terminal points only those with progress > 0 enter
\* the union, and a missing child that disallows quality actions enters it
\* with the synthetic frontier [(max_progress, 0)].
C24_FrontierIsPrunedUnionOfProgress ==
    pc = "Solving" =>
        \A state \in DOMAIN solved_templates :
            /\ Range(solved_templates[state]) =
                Pruned({Saturate(v) :
                    v \in {ParetoValue_new(0, 0)} \cup ShiftedChildPoints(state)
                            \cup {t \in TerminalPoints(state) : t.first > 0}})
            /\ (\A a \in Range(FULL_SEARCH_ACTIONS) : ~Outcome(state, a).applies) =>
                    solved_templates[state] = <<ParetoValue_new(0, 0)>>

\* States just solved: one has terminal actions with progress and with
\* quality only; one has a child with a stored frontier and a missing
\* child.
C24_Witness ==
    /\ pc = "Solving"
    /\ \E state \in DOMAIN solved_templates :
        /\ \E t \in TerminalPoints(state) : t.first > 0
        /\ \E t \in TerminalPoints(state) : t.first = 0 /\ t.second > 0
    /\ \E state \in DOMAIN solved_templates :
        /\ \E a \in Range(FULL_SEARCH_ACTIONS) :
                /\ Outcome(state, a).expands
                /\ Outcome(state, a).child \in DOMAIN solved_states
        /\ \E a \in Range(FULL_SEARCH_ACTIONS) :
                /\ Outcome(state, a).expands
                /\ Outcome(state, a).child \notin DOMAIN solved_states

\* The builder solve_precompute_state starts from: the stack [[(0, 0)]].
FreshBuilder ==
    [builder |-> push_empty(ParetoFrontBuilder_new(settings.max_progress,
                                                   settings.max_quality)),
     unreachable |-> FALSE]

\* The actions that apply to a state and leave nothing to expand.
TerminalActions(state) ==
    {a \in Range(FULL_SEARCH_ACTIONS) :
        Outcome(state, a).applies /\ ~Outcome(state, a).expands}

\* C25: for every state of the layer in progress and every action that
\* applies but leaves budget 0 or durability 0, one pass of the loop of
\* solve_precompute_state from the fresh builder merges the action's
\* (progress, quality), saturated, iff the progress is > 0 and otherwise
\* leaves the builder as it is; the result is the same with SolvedStates
\* emptied, i.e. no child frontier is looked up.
C25_TerminalRule ==
    pc = "Solving" =>
        \A state \in pending \cup DOMAIN solved_templates :
            \A a \in TerminalActions(state) :
                LET o == Outcome(state, a)
                    after == SolveAction(Self, FreshBuilder, state, a)
                IN  /\ ~after.unreachable
                    /\ peek(after.builder) =
                            IF o.progress > 0
                            THEN <<Saturate(ParetoValue_new(o.progress, o.quality))>>
                            ELSE <<ParetoValue_new(0, 0)>>
                    /\ Len(after.builder.fronts) = 1
                    /\ after = SolveAction([Self EXCEPT !.solved_states = EmptyMap],
                                           FreshBuilder, state, a)

\* A state of a layer past the first has, with earlier layers stored, a
\* terminal action with progress only and one with quality only.
C25_Witness ==
    /\ pc = "Solving" /\ next_precompute_step_budget >= 2
    /\ solved_states # EmptyMap
    /\ \E state \in pending :
        /\ \E a \in TerminalActions(state) :
                Outcome(state, a).progress > 0 /\ Outcome(state, a).quality = 0
        /\ \E a \in TerminalActions(state) :
                Outcome(state, a).progress = 0 /\ Outcome(state, a).quality > 0

\* The children for which solve_precompute_state takes the synthetic
\* frontier when it solves a state: expandable, not in SolvedStates.
MissingChildren(state) ==
    {Outcome(state, a).child :
        a \in {x \in Range(FULL_SEARCH_ACTIONS) :
                /\ Outcome(state, x).applies /\ Outcome(state, x).expands
                /\ Outcome(state, x).child \notin DOMAIN solved_states}}

TemplateOf(reduced) == [durability |-> reduced.durability, effects |-> reduced.effects]

\* C26: whenever a state of the layer in progress has a missing child, the
\* child disallows quality actions, its template was enumerated and has
\* been evicted, at a budget below the child's, with a frontier whose last
\* point had reached max_progress; and solving the child at its own budget
\* against the present SolvedStates gives exactly [(max_progress, 0)].
C26_SyntheticFrontierIsExact ==
    pc = "Solving" =>
        \A state \in pending \cup DOMAIN solved_templates :
            \A child \in MissingChildren(state) :
                /\ ~child.effects.allow_quality_actions
                /\ TemplateOf(child) \in Solvers[User].precompute_templates
                /\ TemplateOf(child) \notin precompute_templates
                /\ child \notin pending \cup DOMAIN solved_templates
                /\ \E b \in 1 .. child.steps_budget - 1 :
                    /\ Template_instantiate(TemplateOf(child), b) \in DOMAIN solved_states
                    /\ LastPoint(solved_states, TemplateOf(child), b).first
                            >= settings.max_progress
                    /\ \A b2 \in b + 1 .. child.steps_budget :
                        Template_instantiate(TemplateOf(child), b2)
                            \notin DOMAIN solved_states
                /\ solve_precompute_state(Self,
                        ParetoFrontBuilder_new(settings.max_progress,
                                               settings.max_quality),
                        child)
                    = [front |-> <<ParetoValue_new(settings.max_progress, 0)>>,
                       unreachable |-> FALSE]

\* A state has been solved with the synthetic frontier for a child whose
\* template was evicted in the layer before the child's with a frontier at
\* max_progress, and with a stored frontier for another child.
C26_Witness ==
    /\ pc = "Solving"
    /\ \E state \in DOMAIN solved_templates :
        /\ \E child \in MissingChildren(state) :
            /\ TemplateOf(child) \notin precompute_templates
            /\ Template_instantiate(TemplateOf(child), child.steps_budget - 1)
                    \in DOMAIN solved_states
            /\ LastPoint(solved_states, TemplateOf(child), child.steps_budget - 1).first
                    >= settings.max_progress
        /\ \E k \in Reads(state) : k \in DOMAIN solved_states

\* The seed of the enumeration: full durability, the initial effects with
\* the adversarial guard off and the combo tag None.
SeedTemplate(st) ==
    [durability |-> st.max_durability,
     effects |-> [Effects_initial(st) EXCEPT !.adversarial_guard = FALSE,
                                             !.combo = "None"]]

\* The outcome of one catalog action applied to a template.
TemplateStep(st, template, action) ==
    LET r == use_action_combo(st,
                ReducedState_to_state(Template_instantiate(template, U8_MAX)), action)
        new_state == ReducedState_from_state(r.state, U8_MAX)
    IN  [ok |-> r.ok,
         template |-> [durability |-> new_state.durability,
                       effects |-> new_state.effects]]

\* The templates one successful action away from a template of S that
\* keep durability above 0.
TemplateSuccessors(st, S) ==
    {TemplateStep(st, t, a).template :
        <<t, a>> \in {x \in S \X Range(FULL_SEARCH_ACTIONS) :
                        /\ TemplateStep(st, x[1], x[2]).ok
                        /\ TemplateStep(st, x[1], x[2]).template.durability > 0}}

\* The least set that holds the seed and is closed under TemplateSuccessors.
RECURSIVE TemplateClosure(_, _)
TemplateClosure(st, S) ==
    LET T == S \cup TemplateSuccessors(st, S)
    IN  IF T = S THEN S ELSE TemplateClosure(st, T)

ReachableTemplates(st) == TemplateClosure(st, {SeedTemplate(st)})

\* The reachable templates under each solver's own settings.
Reachable == [u \in UserSettings |-> ReachableTemplates(Solvers[u].settings)]

\* C27: the templates the solver is constructed with are exactly the
\* templates reachable from the seed through successful catalog actions
\* that leave durability above 0: the seed is among them, each has
\* durability above 0, none is missing and none is extra; the list a
\* precompute call filters stays within that set.
C27_TemplatesAreReachableSet ==
    /\ Solvers[User].precompute_templates = Reachable[User]
    /\ SeedTemplate(settings) \in Solvers[User].precompute_templates
    /\ \A t \in Solvers[User].precompute_templates : t.durability > 0
    /\ pc = "Constructed" /\ calls = 0 => precompute_templates = Reachable[User]
    /\ precompute_templates \subseteq Reachable[User]

\* A freshly constructed solver holds a template that is neither the seed
\* nor one action away from it, and a template with an applicable action
\* whose result has durability 0 and is therefore not enumerated.
C27_Witness ==
    /\ pc = "Constructed" /\ calls = 0
    /\ \E t \in precompute_templates :
            t \notin {SeedTemplate(settings)}
                        \cup TemplateSuccessors(settings, {SeedTemplate(settings)})
    /\ \E t \in precompute_templates : \E a \in Range(FULL_SEARCH_ACTIONS) :
            /\ TemplateStep(settings, t, a).ok
            /\ TemplateStep(settings, t, a).template.durability = 0
            /\ TemplateStep(settings, t, a).template \notin precompute_templates

\* The run of the while-let loop, recorded: log is the sequence of every
\* template pushed on the queue so far, seen the set inserted so far.  The
\* record stops at the first template pushed a second time (repeated) or
\* when the queue is empty.
RECURSIVE TemplateBFSRun(_, _, _)
TemplateBFSRun(st, acc, log) ==
    IF acc.queue = <<>>
    THEN [log |-> log, templates |-> acc.templates, repeated |-> FALSE,
          queue |-> acc.queue]
    ELSE
    LET popped == [acc EXCEPT !.queue = Tail(@)]
        next == ExpandTemplate(st, Template_instantiate(Head(acc.queue), U8_MAX),
                               popped, 1)
        pushed == SubSeq(next.queue, Len(popped.queue) + 1, Len(next.queue))
        all == log \o pushed
    IN  IF \E i, j \in DOMAIN all : i # j /\ all[i] = all[j]
        THEN [log |-> all, templates |-> next.templates, repeated |-> TRUE,
              queue |-> next.queue]
        ELSE TemplateBFSRun(st, next, all)

BFSRun ==
    [u \in UserSettings |->
        TemplateBFSRun(Solvers[u].settings,
                       [templates |-> {SeedTemplate(Solvers[u].settings)},
                        queue |-> <<SeedTemplate(Solvers[u].settings)>>],
                       <<SeedTemplate(Solvers[u].settings)>>)]

\* The longest MuscleMemory countdown an action of the catalog grants.
MuscleMemoryTurns(st) ==
    LET turns == {st.actions[a].mm : a \in DOMAIN st.actions} \cup {0}
    IN  CHOOSE m \in turns : \A x \in turns : x <= m

\* The (durability, effects) pairs a template of the settings can hold.
TemplateSpace(st) ==
    [durability : 1 .. st.max_durability,
     effects : [inner_quiet : 0 .. IQ_MAX,
                muscle_memory : 0 .. MuscleMemoryTurns(st),
                allow_quality_actions : BOOLEAN,
                combo : {"None"},
                adversarial_guard : {FALSE}]]

\* C28: the enumeration of the solver's settings ends with an empty queue;
\* no template was pushed on the queue twice, the templates pushed are the
\* templates inserted in the seen set, one push per template, and all of
\* them lie in the finite set of (durability, effects) pairs.
C28_TemplateBFSTerminates ==
    LET run == BFSRun[User]
    IN  /\ ~run.repeated
        /\ run.queue = <<>>
        /\ \A i, j \in DOMAIN run.log : i # j => run.log[i] # run.log[j]
        /\ Range(run.log) = run.templates
        /\ Len(run.log) = Cardinality(run.templates)
        /\ run.templates = Solvers[User].precompute_templates
        /\ run.templates \subseteq TemplateSpace(settings)
        /\ precompute_templates \subseteq run.templates

\* A freshly constructed solver whose enumeration met templates it had
\* already seen: an action that maps a template to itself, and a template
\* that two different templates lead to.
C28_Witness ==
    /\ pc = "Constructed" /\ calls = 0
    /\ Len(BFSRun[User].log) >= 3
    /\ \E t \in precompute_templates : \E a \in Range(FULL_SEARCH_ACTIONS) :
            TemplateStep(settings, t, a).ok /\ TemplateStep(settings, t, a).template = t
    /\ \E t1, t2 \in precompute_templates :
            /\ t1 # t2
            /\ (TemplateSuccessors(settings, {t1})
                    \cap TemplateSuccessors(settings, {t2})) \ {t1, t2} # {}

\* The answer read off SolvedStates for a key, a required progress and the
\* quality already gained: an error for an unknown key, None when no point
\* has the required progress, else the quality of the first point that has.
Lookup(key, required, quality) ==
    IF key \notin DOMAIN solved_states THEN Err
    ELSE LET front == solved_states[key]
             eligible == Eligible(front, required)
         IN  IF eligible = {} THEN Ok(FALSE, 0)
             ELSE Ok(TRUE, quality + front[CHOOSE i \in eligible :
                                            \A j \in eligible : i <= j].second)

C29_WitnessNoMuscleMemory ==
    /\ last_query.op = "quality_upper_bound"
    /\ last_query.state.effects.muscle_memory = 0
    /\ last_query.state.progress > 0
    /\ last_query.result.kind = "Ok" /\ last_query.result.some

\* Settings with the adversarial mode off and a mask the optimisation
\* leaves as it is.
Normalized(st) == st.adversarial = FALSE /\ optimize_action_mask(st) = st

\* C30 as stated: the solver's settings and the settings each derived value
\* is computed from, iq_quality_lut included, are normalised.
C30_AllDerivedFromNormalized ==
    /\ Normalized(settings)
    /\ \A field \in DOMAIN SettingsUsed(User) : Normalized(SettingsUsed(User)[field])

\* C30, amended: the solver's settings are the caller's with adversarial
\* off and the mask optimised, in every state; the templates and the
\* largest progress increase are derived from those settings and every
\* key of SolvedStates has the adversarial guard off; iq_quality_lut is
\* derived from the settings as the caller passed them.
C30_DerivedFromNormalizedButLut ==
    /\ Normalized(settings)
    /\ settings = optimize_action_mask([User EXCEPT !.adversarial = FALSE])
    /\ \A field \in DOMAIN SettingsUsed(User) \ {"iq_quality_lut"} :
            SettingsUsed(User)[field] = settings
    /\ SettingsUsed(User).iq_quality_lut = User
    /\ iq_quality_lut = compute_iq_quality_lut(User)
    /\ largest_progress_increase = largest_single_action_progress_increase(settings)
    /\ Solvers[User].precompute_templates = Reachable[User]
    /\ \A k \in DOMAIN solved_states \cup DOMAIN solved_templates \cup pending :
            ~k.effects.adversarial_guard

\* A solver constructed from settings with adversarial on and a mask the
\* optimisation shrinks has finished a precompute call and answered a
\* bound query for a state that carries the adversarial guard.
C30_Witness ==
    /\ User.adversarial
    /\ DOMAIN settings.actions # DOMAIN User.actions
    /\ pc = "Ready"
    /\ last_query.op = "quality_upper_bound"
    /\ last_query.state.effects.adversarial_guard
    /\ last_query.result.kind = "Ok" /\ last_query.result.some

\* C31: when the parallel region of a layer is over, the instantiation of
\* every alive template at the current budget is a key of the extended
\* SolvedStates with a non-empty frontier, so the filter never fails on
\* get().unwrap() or last().unwrap(): the step that ends a layer always
\* goes back to the loop head; and no frontier a worker hands back is empty.
C31_FilterUnwrapsSucceed ==
    /\ [][LayerFinish => pc' = "Precomputing"]_vars
    /\ [](/\ (pc = "Solving" /\ pending = {}) =>
                \A t \in precompute_templates :
                    LET k == Template_instantiate(t, next_precompute_step_budget)
                        extended == solved_templates @@ solved_states
                    IN  k \in DOMAIN extended /\ Len(extended[k]) >= 1
          /\ \A k \in DOMAIN solved_templates : Len(solved_templates[k]) >= 1)

\* The filter has run at a budget of 3 or more on a list from which
\* templates had been evicted before, and kept a template whose frontier
\* at that budget has several points.
C31_Witness ==
    /\ pc = "Precomputing" /\ calls = 1
    /\ next_precompute_step_budget \in 4 .. MaxSearchSteps
    /\ precompute_templates # Solvers[User].precompute_templates
    /\ \E t \in precompute_templates :
        LET k == Template_instantiate(t, next_precompute_step_budget - 1)
        IN  k \in DOMAIN solved_states /\ Len(solved_states[k]) >= 2

\* The first precompute() has returned because no template was left.
Completed == pc = "Ready" /\ calls = 1 /\ precompute_templates = {}

\* step_lower_bound takes its shortcut for the state.
Shortcut(state) ==
    ~state.effects.allow_quality_actions /\ state.quality < settings.max_quality

\* C32 as stated: after a completed precompute(), step_lower_bound answers
\* Ok for every query state and every hint.
C32_EveryHintIsOk ==
    (Completed /\ last_query.op = "step_lower_bound") => last_query.result.kind = "Ok"

\* C32, amended: after a completed precompute(), step_lower_bound answers
\* Ok whenever it takes the shortcut, or the key of the state at
\* max(hint, 1) is in SolvedStates, or some budget from max(hint, 1) on is
\* sufficient; it answers Err only at its first probe, when the key at
\* max(hint, 1) belongs to an enumerated template evicted at a smaller
\* budget; it never aborts.
C32_OkWhileFirstBudgetCovered ==
    (Completed /\ last_query.op = "step_lower_bound") =>
        LET state == last_query.state
            first == Max(last_query.arg, 1)
            key == QueryKey(state, first)
        IN  /\ last_query.result.kind \in {"Ok", "Err"}
            /\ (\/ Shortcut(state)
                \/ key \in DOMAIN solved_states
                \/ \E b \in first .. MaxSearchSteps : Sufficient(state, b))
                    => last_query.result.kind = "Ok"
            /\ last_query.result.kind = "Err" =>
                /\ last_query.result.probes = 1
                /\ key \notin DOMAIN solved_states
                /\ TemplateOf(key) \in Solvers[User].precompute_templates
                /\ \E b \in 1 .. first - 1 :
                        Template_instantiate(TemplateOf(key), b) \in DOMAIN solved_states

\* After a completed precompute(), step_lower_bound with hint 0 answered a
\* budget above 1 for a state with MuscleMemory active.
C32_Witness ==
    /\ Completed
    /\ last_query.op = "step_lower_bound"
    /\ last_query.arg = 0
    /\ last_query.state.effects.muscle_memory > 0
    /\ last_query.result.kind = "Ok"
    /\ last_query.result.probes >= 2

\* After a completed precompute(), step_lower_bound failed on a hint above
\* the budget at which the template of the state was evicted.
C32_WitnessErr ==
    /\ Completed
    /\ last_query.op = "step_lower_bound"
    /\ last_query.arg \in 2 .. MaxQueryBudget
    /\ last_query.result.kind = "Err"

-----------------------------------------------------------------------------
(* The app: MacroSolverApp::update, process_solver_events, solve and the    *)
(* thread of spawn_solver (src/app.rs).  The state is the record app; the  *)
(* solver variables stay as constructed.                                   *)

StepLbVars ==
    <<settings, interrupt_signal, solved_states, precompute_templates, pc,
      next_precompute_step_budget, pending, solved_templates, iq_quality_lut,
      largest_progress_increase, calls, last_query>>

\* The action lists a solver or the solve history may hand over.
ActionLists == {"L1", "L2"}

\* SolverException (the variant of the 32-bit web build is left out).
Exceptions == {"NoSolution", "Interrupted", "InternalError"}

NodesVisited(count) == [type |-> "NodesVisited", count |-> count]
Actions(actions) == [type |-> "Actions", actions |-> actions]
LoadedFromHistory == [type |-> "LoadedFromHistory"]
Finished(exception) == [type |-> "Finished", exception |-> exception]

\* The Finished arm of process_solver_events that leaves the interrupt flag
\* as it is.
ProcessEvent_keeps_interrupt(r, event) ==
    CASE event.type = "NodesVisited" ->
            [r EXCEPT !.app.solver_progress = event.count]
      [] event.type = "Actions" ->
            [r EXCEPT !.app.actions = event.actions]
      [] event.type = "LoadedFromHistory" ->
            [r EXCEPT !.app.solver_progress = "MAX"]
      [] OTHER ->
            [app |-> [r.app EXCEPT
                        !.solver_pending = FALSE,
                        !.solver_error =
                            IF event.exception = None THEN @ ELSE event.exception,
                        !.processed = Append(@, event.exception),
                        !.at_finished = r.app.actions],
             submit |-> r.submit \/ event.exception = None]

\* One arm of the match in process_solver_events; r = [app, submit].
\* late_cancel records that the flag was set when a solver that had not
\* been interrupted finished.
ProcessEvent(r, event) ==
    CASE event.type = "NodesVisited" ->
            [r EXCEPT !.app.solver_progress = event.count]
      [] event.type = "Actions" ->
            [r EXCEPT !.app.actions = event.actions]
      [] event.type = "LoadedFromHistory" ->
            [r EXCEPT !.app.solver_progress = "MAX"]
      [] OTHER ->
            [app |-> [r.app EXCEPT
                        !.solver_pending = FALSE,
                        !.solver_interrupt = FALSE,
                        !.late_cancel =
                            @ \/ (r.app.solver_interrupt
                                    /\ event.exception # "Interrupted"),
                        !.solver_error =
                            IF event.exception = None THEN @ ELSE event.exception,
                        !.processed = Append(@, event.exception),
                        !.at_finished = r.app.actions],
             submit |-> r.submit \/ event.exception = None]

\* process_solver_events that takes the events from the back of the queue.
RECURSIVE Drain_pop_back(_, _)
Drain_pop_back(r, events) ==
    IF events = <<>> THEN r
    ELSE Drain_pop_back(ProcessEvent(r, events[Len(events)]),
                        SubSeq(events, 1, Len(events) - 1))

\* while let Some(event) = solver_events.pop_front()
RECURSIVE Drain(_, _)
Drain(r, events) ==
    IF events = <<>> THEN r
    ELSE Drain(ProcessEvent(r, Head(events)), Tail(events))

\* process_solver_events: drain the queue under the lock, then submit the
\* new rotation built from self.actions.
process_solver_events(a) ==
    LET r == Drain([app |-> [a EXCEPT !.solver_events = <<>>], submit |-> FALSE],
                   a.solver_events)
    IN  IF r.submit
        THEN [r.app EXCEPT !.saved_rotations_sync_requests = Append(@, r.app.actions)]
        ELSE r.app

\* The solver_error modal that shows Interrupted like any other error and
\* keeps it until Close is clicked.
error_modal_shows_interrupted(a, click) ==
    IF a.solver_error = None THEN a
    ELSE [a EXCEPT !.modal_shown = TRUE,
                   !.text_shown = TRUE,
                   !.solver_error = IF click = "close" THEN None ELSE @]

\* The solver_error modal of update(): Interrupted is reset without a
\* label; the other errors show their text until Close is clicked.
error_modal(a, click) ==
    IF a.solver_error = None THEN a
    ELSE [a EXCEPT !.modal_shown = TRUE,
                   !.text_shown = a.solver_error # "Interrupted",
                   !.solver_error =
                        IF a.solver_error = "Interrupted" \/ click = "close"
                        THEN None ELSE @]

\* The solver_busy modal of update(): Cancel is enabled while the flag is
\* clear and sets it.
busy_modal(a, click) ==
    IF ~a.solver_pending THEN a
    ELSE LET interrupt_pending == a.solver_interrupt
         IN  [a EXCEPT !.modal_shown = TRUE,
                       !.solver_interrupt =
                            IF click = "cancel" /\ ~interrupt_pending THEN TRUE ELSE @]

\* solve() without the Finished event on the load-from-history path.
solve_history_unfinished(a, history) ==
    LET b == [a EXCEPT !.solver_pending = TRUE, !.solver_interrupt = FALSE,
                       !.solves = @ + 1, !.finished_enqueued = 0,
                       !.returned = None]
    IN  IF history # None
        THEN [b EXCEPT !.solver_events =
                            @ \o <<Actions(history), LoadedFromHistory>>,
                       !.returned = history]
        ELSE [b EXCEPT !.actions = "Empty", !.solver_progress = 0,
                       !.thread = "Running", !.callbacks = 0]

\* solve(): history is the rotation found in the saved rotations, or None.
solve(a, history) ==
    LET b == [a EXCEPT !.solver_pending = TRUE, !.solver_interrupt = FALSE,
                       !.solves = @ + 1, !.finished_enqueued = 0,
                       !.returned = None]
    IN  IF history # None
        THEN [b EXCEPT !.solver_events =
                            @ \o <<Actions(history), LoadedFromHistory,
                                   Finished(None)>>,
                       !.returned = history,
                       !.finished_enqueued = 1]
        ELSE [b EXCEPT !.actions = "Empty", !.solver_progress = 0,
                       !.thread = "Running", !.callbacks = 0]

\* on_solve_initiated(): wait for the thread pool, then check the stats and
\* solve.
on_solve_initiated(a, pool_ready, stats_ok, history) ==
    IF a.pool_initialized
    THEN LET b == [a EXCEPT !.solve_initiated = FALSE]
         IN  IF stats_ok THEN solve(b, history) ELSE b
    ELSE [a EXCEPT !.pool_initialized = pool_ready]

\* The panels drawn under the modals: the macro editor and the Solve button.
\* A click reaches them only in a frame that shows no modal.
panels(a, click, pool_ready, stats_ok, history) ==
    LET edited == IF click = "edit" /\ ~a.modal_shown
                  THEN [a EXCEPT !.actions = "Edited"] ELSE a
        clicked == IF click = "solve" /\ ~a.modal_shown /\ ~a.solve_initiated
                   THEN [edited EXCEPT !.solve_initiated = TRUE] ELSE edited
    IN  IF clicked.solve_initiated
        THEN on_solve_initiated(clicked, pool_ready, stats_ok, history)
        ELSE clicked

\* One frame, update(): the events, the two modals, the panels.
update(a, click, pool_ready, stats_ok, history) ==
    LET frame == [a EXCEPT !.processed = <<>>, !.text_shown = FALSE,
                           !.modal_shown = FALSE]
    IN  panels(busy_modal(error_modal(process_solver_events(frame), click), click),
               click, pool_ready, stats_ok, history)

Clicks == {"none", "close", "cancel", "edit", "solve"}

Update(click, pool_ready, stats_ok, history) ==
    /\ click = "solve" => app.solves < MaxSolves
    /\ app' = update(app, click, pool_ready, stats_ok, history)
    /\ UNCHANGED <<crafter_config, StepLbVars>>

\* progress_callback of spawn_solver.
SolverProgress ==
    /\ app.thread = "Running"
    /\ app.callbacks < MaxCallbacks
    /\ app' = [app EXCEPT !.solver_events = Append(@, NodesVisited(app.callbacks + 1)),
                          !.callbacks = @ + 1]
    /\ UNCHANGED <<crafter_config, StepLbVars>>

\* solution_callback of spawn_solver.
SolverSolution(actions) ==
    /\ app.thread = "Running"
    /\ app.callbacks < MaxCallbacks
    /\ app' = [app EXCEPT !.solver_events = Append(@, Actions(actions)),
                          !.callbacks = @ + 1]
    /\ UNCHANGED <<crafter_config, StepLbVars>>

\* The end of the spawned closure that pushes Finished before the final
\* Actions event.
solver_returns_finished_first(a, result) ==
    [a EXCEPT !.thread = "Returned",
              !.finished_enqueued = @ + 1,
              !.returned = IF result.ok THEN result.actions ELSE None,
              !.solver_events =
                    IF result.ok
                    THEN @ \o <<Finished(None), Actions(result.actions)>>
                    ELSE Append(@, Finished(result.exception))]

\* The end of the spawned closure that reports no error.
solver_returns_drops_error(a, result) ==
    [a EXCEPT !.thread = "Returned",
              !.finished_enqueued = IF result.ok THEN @ + 1 ELSE @,
              !.returned = IF result.ok THEN result.actions ELSE None,
              !.solver_events =
                    IF result.ok
                    THEN @ \o <<Actions(result.actions), Finished(None)>>
                    ELSE @]

\* The end of the spawned closure: match macro_solver.solve().
solver_returns(a, result) ==
    [a EXCEPT !.thread = "Returned",
              !.finished_enqueued = @ + 1,
              !.returned = IF result.ok THEN result.actions ELSE None,
              !.solver_events =
                    IF result.ok
                    THEN @ \o <<Actions(result.actions), Finished(None)>>
                    ELSE Append(@, Finished(result.exception))]

\* What MacroSolver::solve may return: a list, or an exception; Interrupted
\* only when the flag is set.
SolverResults ==
    {[ok |-> TRUE, actions |-> l, exception |-> None] : l \in ActionLists}
        \cup {[ok |-> FALSE, actions |-> None, exception |-> e] : e \in Exceptions}

SolverReturn(result) ==
    /\ app.thread = "Running"
    /\ (~result.ok /\ result.exception = "Interrupted") => app.solver_interrupt
    /\ app' = solver_returns(app, result)
    /\ UNCHANGED <<crafter_config, StepLbVars>>

AppInit == Init /\ settings = Solvers[SettingsS4].settings

AppNext ==
    \/ \E click \in Clicks, pool_ready \in BOOLEAN, stats_ok \in BOOLEAN,
          history \in ActionLists \cup {None} :
            Update(click, pool_ready, stats_ok, history)
    \/ SolverProgress
    \/ \E actions \in ActionLists : SolverSolution(actions)
    \/ \E result \in SolverResults : SolverReturn(result)

AppSpec == AppInit /\ [][AppNext]_vars

\* C33: an update() that processes Finished(Some(Interrupted)) ends with
\* solver_pending false, the flag clear and solver_error None, has shown no
\* error text and pushed no rotation to be saved; and a click on Solve in
\* the following frame starts a solver with the flag clear.
C33_InterruptedIsNotAFailure ==
    [][(app' # app /\ "Interrupted" \in Range(app'.processed)) =>
            /\ ~app'.solver_pending
            /\ ~app'.solver_interrupt
            /\ app'.solver_error = None
            /\ ~app'.text_shown
            /\ app'.saved_rotations_sync_requests = app.saved_rotations_sync_requests
            /\ LET next == update(app', "solve", TRUE, TRUE, None)
               IN  /\ next.thread = "Running"
                   /\ next.solver_pending
                   /\ ~next.solver_interrupt
                   /\ next.solver_error = None]_vars

\* An update() has processed the Finished event of a solver that was
\* cancelled after it had delivered a solution.
C33_Witness ==
    /\ app.processed = <<"Interrupted">>
    /\ app.actions \in ActionLists
    /\ app.thread = "Returned"

\* The app with a solver that returns and a UI that keeps drawing frames
\* (the spinner of the busy modal repaints while a solve is pending).
FairAppSpec ==
    /\ AppSpec
    /\ WF_vars(\E result \in SolverResults : SolverReturn(result))
    /\ WF_vars(\E click \in Clicks, pool_ready \in BOOLEAN, stats_ok \in BOOLEAN,
                  history \in ActionLists \cup {None} :
                    Update(click, pool_ready, stats_ok, history))

\* The positions of the Finished events in the queue.
FinishedAt == {i \in DOMAIN app.solver_events : app.solver_events[i].type = "Finished"}

\* C34: a solve enqueues no Finished event while its solver runs and
\* exactly one once the solver has returned or the rotation was loaded from
\* the history; a Finished event in the queue is the last event of the
\* queue; solver_pending is true exactly from the start of solve until the
\* Finished event is processed; and a pending solve always comes to an end.
C34_OneFinishedPerSolve ==
    /\ [](/\ app.finished_enqueued <= 1
          /\ app.thread = "Running" => app.finished_enqueued = 0
          /\ (app.solves >= 1 /\ app.thread # "Running") => app.finished_enqueued = 1
          /\ FinishedAt \subseteq {Len(app.solver_events)}
          /\ app.solver_pending <=> (app.thread = "Running" \/ FinishedAt # {}))
    /\ (app.solver_pending ~> ~app.solver_pending)

\* The second solve of a run has returned an error after two callbacks and
\* its Finished event waits in the queue behind their events, the first
\* solve having ended with a rotation to save.
C34_Witness ==
    /\ app.solves = 2
    /\ app.thread = "Returned"
    /\ app.saved_rotations_sync_requests \in {<<l>> : l \in ActionLists}
    /\ Len(app.solver_events) = 3
    /\ app.solver_events[3].type = "Finished"
    /\ app.solver_events[3].exception = "NoSolution"
    /\ app.solver_pending

\* The step is one frame of the UI.
UpdateStep ==
    \E click \in Clicks, pool_ready \in BOOLEAN, stats_ok \in BOOLEAN,
       history \in ActionLists \cup {None} :
        app' = update(app, click, pool_ready, stats_ok, history)

\* C35: under every interleaving of the solver thread's pushes with the
\* frames of the UI, an update() that processes Finished(None) finds in
\* self.actions the list the solver returned (or the history supplied),
\* and pushes exactly that list as the rotation to save.
C35_FinalActionsAreSaved ==
    [][(UpdateStep /\ None \in Range(app'.processed)) =>
            /\ app.returned \in ActionLists
            /\ app'.processed = <<None>>
            /\ app'.at_finished = app.returned
            /\ app'.saved_rotations_sync_requests =
                    Append(app.saved_rotations_sync_requests, app.returned)]_vars

\* One update() has processed two callbacks' events and the final Actions
\* and Finished(None) of a solver whose last intermediate solution was not
\* the list it returned.
C35_Witness ==
    /\ app.processed = <<None>>
    /\ app.thread = "Returned"
    /\ app.callbacks = MaxCallbacks
    /\ app.solver_events = <<>>
    /\ app.solver_progress = 0
    /\ app.returned = "L2"
    /\ app.saved_rotations_sync_requests = <<"L2">>

\* C36: a cancel request never leaks into a later solve. The interrupt flag
\* becomes set only in a frame where Cancel is clicked in the solver_busy
\* modal, so only while solver_pending is true; a frame that processes a
\* Finished event leaves it clear; every call of solve() leaves it clear, so
\* it is clear whenever a solver is spawned, also after a Cancel that came
\* after the previous solver had enqueued its Finished event.
C36_CancelNeverLeaks ==
    /\ [][
           /\ (~app.solver_interrupt /\ app'.solver_interrupt) =>
                /\ app.solver_pending
                /\ app'.solver_pending
                /\ app'.modal_shown
                /\ \E pool_ready \in BOOLEAN, stats_ok \in BOOLEAN,
                      history \in ActionLists \cup {None} :
                        app' = update(app, "cancel", pool_ready, stats_ok, history)
           /\ (UpdateStep /\ app'.processed # <<>>) => ~app'.solver_interrupt
           /\ (app'.solves = app.solves + 1) => ~app'.solver_interrupt
           /\ (app.thread # "Running" /\ app'.thread = "Running") =>
                ~app'.solver_interrupt]_vars
    /\ [](app.solver_interrupt => app.solver_pending)

\* C36 witness: the second solver has been spawned with the flag clear, after
\* Cancel had been clicked on the first one when it could no longer be
\* interrupted.
C36_Witness ==
    /\ app.late_cancel
    /\ app.solves = 2
    /\ app.thread = "Running"
    /\ app.solver_pending
    /\ ~app.solver_interrupt

-----------------------------------------------------------------------------
(* The crafter configuration (src/config.rs) under the widgets that use it *)

\* The values a stat field takes here.
StatValues == {0, 1}

\* The stats stored per job in a saved configuration: all default, or
\* different from job to job.
StatsProfiles ==
    {[j \in 0 .. NUM_JOBS - 1 |-> DefaultStats],
     [j \in 0 .. NUM_JOBS - 1 |->
        [craftsmanship |-> j % 2, control |-> (j \div 2) % 2]]}

\* load(cc, "CRAFTER_CONFIG", CrafterConfig::default()): the default, or a
\* stored configuration; working_stats and attached_job take their serde
\* defaults when the stored value lacks them.
LoadedConfigs ==
    {[CrafterConfig_default EXCEPT !.selected_job = job, !.crafter_stats = stats] :
        job \in {1, 2}, stats \in StatsProfiles}

active_stats(config) ==
    IF config.attached_job # Detached
    THEN config.crafter_stats[config.selected_job]
    ELSE config.working_stats

\* active_stats_mut() that copies the job's stats whenever attached_job is
\* not Some(selected_job), also when it is None.
active_stats_mut_syncs_detached(config) ==
    IF config.attached_job # Some(config.selected_job)
    THEN [config EXCEPT !.attached_job = Some(config.selected_job),
                        !.working_stats = config.crafter_stats[config.selected_job]]
    ELSE config

\* active_stats_mut() that attaches to the selected job without the copy.
active_stats_mut_no_copy(config) ==
    IF config.attached_job # Detached /\ config.attached_job # Some(config.selected_job)
    THEN [config EXCEPT !.attached_job = Some(config.selected_job)]
    ELSE config

\* active_stats_mut(): the configuration it leaves; the reference it returns
\* is to working_stats.
active_stats_mut(config) ==
    IF config.attached_job # Detached /\ config.attached_job # Some(config.selected_job)
    THEN [config EXCEPT !.attached_job = Some(config.selected_job),
                        !.working_stats = config.crafter_stats[config.selected_job]]
    ELSE config

reset_to_job(config) == [config EXCEPT !.attached_job = Some(INTERMEDIATE_JOB)]

detach_from_job(config) == [config EXCEPT !.attached_job = Detached]

is_detached(config) == config.attached_job = Detached

\* The SELECTED_JOB combo box.
SelectJob(job) ==
    /\ crafter_config' = [crafter_config EXCEPT !.selected_job = job]
    /\ UNCHANGED <<app, StepLbVars>>

\* The button next to the combo box, enabled while detached.
ResetToJob ==
    /\ is_detached(crafter_config)
    /\ crafter_config' = reset_to_job(crafter_config)
    /\ UNCHANGED <<app, StepLbVars>>

\* A frame draws the stat fields and nothing is changed.
ActiveStatsMut ==
    /\ crafter_config' = active_stats_mut(crafter_config)
    /\ UNCHANGED <<app, StepLbVars>>

\* A stat field of the configuration panel is changed: the write goes
\* through active_stats_mut(), then detach_from_job().
EditStat(field, value) ==
    LET config == active_stats_mut(crafter_config)
    IN  /\ config.working_stats[field] # value
        /\ crafter_config' =
                detach_from_job([config EXCEPT !.working_stats[field] = value])
        /\ UNCHANGED <<app, StepLbVars>>

\* The context menu of the simulator: detach_from_job(), then the write
\* through active_stats_mut().
SimulatorSetStat(field, value) ==
    LET config == active_stats_mut(detach_from_job(crafter_config))
    IN  /\ crafter_config' = [config EXCEPT !.working_stats[field] = value]
        /\ UNCHANGED <<app, StepLbVars>>

ConfigInit ==
    /\ app = AppInitial
    /\ crafter_config \in LoadedConfigs
    /\ settings = Solvers[SettingsS4].settings
    /\ solved_states = Solvers[SettingsS4].solved_states
    /\ precompute_templates = Solvers[SettingsS4].precompute_templates
    /\ iq_quality_lut = Solvers[SettingsS4].iq_quality_lut
    /\ largest_progress_increase = Solvers[SettingsS4].largest_progress_increase
    /\ interrupt_signal = FALSE
    /\ pc = "Constructed"
    /\ next_precompute_step_budget = 0
    /\ pending = {}
    /\ solved_templates = EmptyMap
    /\ calls = 0
    /\ last_query = NoQuery

ConfigNext ==
    \/ \E job \in 0 .. NUM_JOBS - 1 : SelectJob(job)
    \/ ResetToJob
    \/ ActiveStatsMut
    \/ \E field \in DOMAIN DefaultStats, value \in StatValues : EditStat(field, value)
    \/ \E field \in DOMAIN DefaultStats, value \in StatValues :
            SimulatorSetStat(field, value)

ConfigSpec == ConfigInit /\ [][ConfigNext]_vars

\* C37: a detached configuration reports working_stats as its active stats
\* and is_detached(); detach_from_job() detaches; every step but
\* reset_to_job() (job changes, active_stats_mut() calls, writes through its
\* reference) leaves a detached configuration detached; and while detached,
\* active_stats_mut() changes nothing, so working_stats is never overwritten
\* with the stored stats of a job.
C37_DetachedUntilReset ==
    /\ [](/\ is_detached(detach_from_job(crafter_config))
          /\ active_stats(detach_from_job(crafter_config)) = crafter_config.working_stats
          /\ is_detached(crafter_config) =>
                /\ active_stats(crafter_config) = crafter_config.working_stats
                /\ active_stats_mut(crafter_config) = crafter_config)
    /\ [][(is_detached(crafter_config) /\ ~ResetToJob) =>
                /\ is_detached(crafter_config')
                /\ active_stats(crafter_config') = crafter_config'.working_stats
                /\ crafter_config'.crafter_stats = crafter_config.crafter_stats
                /\ ActiveStatsMut => crafter_config' = crafter_config]_vars

\* C37 witness: detached, with another job selected than at the start and
\* edited working_stats that differ from the stored stats of that job.
C37_Witness ==
    /\ is_detached(crafter_config)
    /\ crafter_config.selected_job = 5
    /\ crafter_config.working_stats = [craftsmanship |-> 1, control |-> 1]
    /\ crafter_config.crafter_stats[5] = [craftsmanship |-> 1, control |-> 0]
    /\ active_stats(crafter_config) = crafter_config.working_stats

====
